---- MODULE Spec2Model ----
(***************************************************************************)
(* A model of the CHIP-8 toolchain: the instruction codec (encode/decode), *)
(* the assembler's codegen and the interpreter's step function.            *)
(***************************************************************************)
EXTENDS Integers, Sequences, FiniteSets, TLC

VARIABLES
    mode,       \* which component the behaviour exercises: "enc", "dec", ...
    instr,      \* codec: the Instruction under test
    word,       \* codec: the two bytes under test, <<b1, b2>>
    phase,      \* codec: position of the round trip
    encRes,     \* codec: last result of encode
    decRes,     \* codec: last result of decode
    \* --- Chip8Interpreter (interpreter/src/interpreter/mod.rs) ---
    memory,                 \* [u8; 4096], kept as the map of its nonzero bytes
    stack,                  \* [u16; 16]
    v_registers,            \* [u8; 16]
    memory_register,        \* I
    delay_timer,            \* DT
    sound_timer,            \* ST
    program_counter,        \* PC
    stack_pointer,          \* SP
    display,                \* [[Pixel; 64]; 32], kept as the set of its White <<y, x>>
    last_timer_decrement,   \* Instant of the last timer decrement, in ticks
    waiting_for_key_press,  \* Option<u8>: <<>> is None, <<x>> is Some(x)
    \* --- the interpreter's environment and history ---
    rom,        \* the ROM the interpreter was created with
    now,        \* the wall clock, in ticks
    panic,      \* "None" while running, else why the process aborted
    last,       \* what the last step did: its branch, fetch address, instruction
    decTimes,   \* the clock values at which the timers were decremented
    \* --- the assembler's codegen (assembler/src/codegen.rs) ---
    statements, \* the parsed statement list handed to codegen
    cgStatus,   \* "none" before codegen ran, then "ok", "err" or "panic"
    cgError,    \* the CodegenError returned and the index of its statement
    blob,       \* the ROM bytes returned
    lowered,    \* history: each instruction codegen encoded and its ROM address
    alias_map,  \* the alias map when codegen ended
    had_error,  \* HAD_ERROR
    reports,    \* the diagnostics printed: <<span, severity>>
    \* --- the assembler's scanner, parser and main (assembler/src/main.rs) ---
    source,     \* the source text, a sequence of characters
    tokens,     \* Parser::tokens, the token list scan_tokens returned
    current,    \* Parser::current, the number of tokens consumed
    stage,      \* the position of main: "scan", "parse", "codegen", "done"
    exit_status,  \* "none" while main runs, then "ok", "err" or "panic"
    output_file   \* Option<Vec<u8>>: <<>> while not written, <<bytes>> once written

asmVars == <<statements, cgStatus, cgError, blob, lowered, alias_map, had_error, reports>>
mainVars == <<source, tokens, current, stage, exit_status, output_file>>
codecVars == <<instr, word, phase, encRes, decRes>>
machVars == <<memory, stack, v_registers, memory_register, delay_timer, sound_timer,
              program_counter, stack_pointer, display, last_timer_decrement,
              waiting_for_key_press>>
envVars == <<rom, now, panic, last, decTimes>>
vars == <<mode, codecVars, machVars, envVars, asmVars, mainVars>>

(***************************************************************************)
(* Fixed-width integer helpers (u8 / u16 arithmetic of the source).        *)
(***************************************************************************)
RECURSIVE BitAndN(_, _, _)
BitAndN(a, b, n) ==
    IF n = 0 THEN 0
    ELSE (IF a % 2 = 1 /\ b % 2 = 1 THEN 1 ELSE 0)
         + 2 * BitAndN(a \div 2, b \div 2, n - 1)

RECURSIVE BitOrN(_, _, _)
BitOrN(a, b, n) ==
    IF n = 0 THEN 0
    ELSE (IF a % 2 = 1 \/ b % 2 = 1 THEN 1 ELSE 0)
         + 2 * BitOrN(a \div 2, b \div 2, n - 1)

RECURSIVE BitXorN(_, _, _)
BitXorN(a, b, n) ==
    IF n = 0 THEN 0
    ELSE (IF (a % 2) # (b % 2) THEN 1 ELSE 0)
         + 2 * BitXorN(a \div 2, b \div 2, n - 1)

And16(a, b) == BitAndN(a, b, 16)
Or16(a, b)  == BitOrN(a, b, 16)
And8(a, b)  == BitAndN(a, b, 8)
Or8(a, b)   == BitOrN(a, b, 8)
Xor8(a, b)  == BitXorN(a, b, 8)

RECURSIVE Pow2(_)
Pow2(n) == IF n = 0 THEN 1 ELSE 2 * Pow2(n - 1)

\* x << k on a u16 (bits shifted past bit 15 are lost)
Shl16(x, k) == (x * Pow2(k)) % 65536
\* x >> k
Shr(x, k) == x \div Pow2(k)

\* u16::to_be_bytes / u16::from_be_bytes
to_be_bytes(w) == <<w \div 256, w % 256>>
\* (mutant: the bytes taken little-endian)
from_le_bytes(bs) == bs[2] * 256 + bs[1]
from_be_bytes(bs) == bs[1] * 256 + bs[2]

(***************************************************************************)
(* Instruction and Operand (instructions/src/lib.rs).  An instruction is a *)
(* record: op is the variant, x/y/n its fields in order, kind the Operand  *)
(* discriminator of SkipIfEqual / SkipIfNotEqual / LoadRegister.           *)
(***************************************************************************)
Instruction(op, x, kind, y, n) == [op |-> op, x |-> x, kind |-> kind, y |-> y, n |-> n]

I0(op)            == Instruction(op, 0, "None", 0, 0)
I1(op, x)         == Instruction(op, x, "None", 0, 0)
I2(op, x, y)      == Instruction(op, x, "None", y, 0)
I3(op, x, y, n)   == Instruction(op, x, "None", y, n)
IReg(op, x, r)    == Instruction(op, x, "Register", r, 0)
ILit(op, x, b)    == Instruction(op, x, "Literal", b, 0)

NoInstr == I0("None")

(***************************************************************************)
(* encode (instructions/src/encoding.rs)                                   *)
(***************************************************************************)
EncOk(w)        == [ok |-> TRUE,  bytes |-> to_be_bytes(w), err |-> "None", val |-> 0]
EncErr(e, v)    == [ok |-> FALSE, bytes |-> <<0, 0>>,       err |-> e,      val |-> v]
NoEnc           == [ok |-> FALSE, bytes |-> <<0, 0>>,       err |-> "NotRun", val |-> 0]

assert_addr_ok(addr) == And16(addr, \hF000) = 0
assert_reg_ok(reg)   == ~(reg > 15)

EncAddrTruncating(base, address) == EncOk(Or16(base, And16(address, 4095)))

\* op | address, after assert_addr
EncAddr(base, address) ==
    IF assert_addr_ok(address) THEN EncOk(Or16(base, address))
    ELSE EncErr("AddressTooBig", address)

\* op | r1 << 8 | byte, after assert_reg(r1)
EncRegByte(base, r1, byte) ==
    IF ~assert_reg_ok(r1) THEN EncErr("RegisterTooBig", r1)
    ELSE EncOk(Or16(Or16(base, Shl16(r1, 8)), byte))

\* op | r1 << 8 | r2 << 4, after assert_reg(r1), assert_reg(r2)
EncRegReg(base, r1, r2) ==
    IF ~assert_reg_ok(r1) THEN EncErr("RegisterTooBig", r1)
    ELSE IF ~assert_reg_ok(r2) THEN EncErr("RegisterTooBig", r2)
    ELSE EncOk(Or16(Or16(base, Shl16(r1, 8)), Shl16(r2, 4)))

\* (mutant: the register shifted into the third nibble)
EncRegShift4(base, reg) ==
    IF ~assert_reg_ok(reg) THEN EncErr("RegisterTooBig", reg)
    ELSE EncOk(Or16(base, Shl16(reg, 4)))

\* op | reg << 8, after assert_reg(reg)
EncReg(base, reg) ==
    IF ~assert_reg_ok(reg) THEN EncErr("RegisterTooBig", reg)
    ELSE EncOk(Or16(base, Shl16(reg, 8)))

\* (mutant: the nibble checked before the registers)
EncDrawNibbleFirst(x, y, n) ==
    IF n > 15 THEN EncErr("NibbleTooBig", n)
    ELSE IF ~assert_reg_ok(x) THEN EncErr("RegisterTooBig", x)
    ELSE IF ~assert_reg_ok(y) THEN EncErr("RegisterTooBig", y)
    ELSE EncOk(Or16(Or16(Or16(\hD000, Shl16(x, 8)), Shl16(y, 4)), n))

EncDraw(x, y, n) ==
    IF ~assert_reg_ok(x) THEN EncErr("RegisterTooBig", x)
    ELSE IF ~assert_reg_ok(y) THEN EncErr("RegisterTooBig", y)
    ELSE IF n > 15 THEN EncErr("NibbleTooBig", n)
    ELSE EncOk(Or16(Or16(Or16(\hD000, Shl16(x, 8)), Shl16(y, 4)), n))

encode(i) ==
    CASE i.op = "Nop"                     -> EncOk(0)
      [] i.op = "ClearScreen"             -> EncOk(\h00E0)
      [] i.op = "Return"                  -> EncOk(\h00EE)
      [] i.op = "Jump"                    -> EncAddr(\h1000, i.x)
      [] i.op = "Call"                    -> EncAddr(\h2000, i.x)
      [] i.op = "SkipIfEqual" /\ i.kind = "Register"    -> EncRegReg(\h5000, i.x, i.y)
      [] i.op = "SkipIfEqual" /\ i.kind = "Literal"     -> EncRegByte(\h3000, i.x, i.y)
      [] i.op = "SkipIfNotEqual" /\ i.kind = "Register" -> EncRegReg(\h9000, i.x, i.y)
      [] i.op = "SkipIfNotEqual" /\ i.kind = "Literal"  -> EncRegByte(\h4000, i.x, i.y)
      [] i.op = "LoadRegister" /\ i.kind = "Register"   -> EncRegReg(\h8000, i.x, i.y)
      [] i.op = "LoadRegister" /\ i.kind = "Literal"    -> EncRegByte(\h6000, i.x, i.y)
      [] i.op = "AddNoCarry"              -> EncRegByte(\h7000, i.x, i.y)
      [] i.op = "Or"                      -> EncRegReg(\h8001, i.x, i.y)
      [] i.op = "And"                     -> EncRegReg(\h8002, i.x, i.y)
      [] i.op = "Xor"                     -> EncRegReg(\h8003, i.x, i.y)
      [] i.op = "AddWithCarry"            -> EncRegReg(\h8004, i.x, i.y)
      [] i.op = "Sub"                     -> EncRegReg(\h8005, i.x, i.y)
      [] i.op = "ShiftRight"              -> EncReg(\h8006, i.x)
      [] i.op = "SubN"                    -> EncRegReg(\h8007, i.x, i.y)
      [] i.op = "ShiftLeft"               -> EncReg(\h800E, i.x)
      [] i.op = "LoadMemoryRegister"      -> EncAddr(\hA000, i.x)
      [] i.op = "JumpPlusV0"              -> EncAddr(\hB000, i.x)
      [] i.op = "LoadRandomWithMask"      -> EncRegByte(\hC000, i.x, i.y)
      [] i.op = "Draw"                    -> EncDraw(i.x, i.y, i.n)
      [] i.op = "SkipIfKeyPressed"        -> EncReg(\hE09E, i.x)
      [] i.op = "SkipIfKeyNotPressed"     -> EncReg(\hE0A1, i.x)
      [] i.op = "LoadFromDelayTimer"      -> EncReg(\hF007, i.x)
      [] i.op = "WaitForKeyPress"         -> EncReg(\hF00A, i.x)
      [] i.op = "LoadIntoDelayTimer"      -> EncReg(\hF015, i.x)
      [] i.op = "LoadIntoSoundTimer"      -> EncReg(\hF018, i.x)
      [] i.op = "AddToMemoryRegister"     -> EncReg(\hF01E, i.x)
      [] i.op = "LoadDigitAddress"        -> EncReg(\hF029, i.x)
      [] i.op = "StoreBcdInMemory"        -> EncReg(\hF033, i.x)
      [] i.op = "StoreRegistersInMemory"  -> EncReg(\hF055, i.x)
      [] i.op = "ReadRegistersFromMemory" -> EncReg(\hF065, i.x)

(***************************************************************************)
(* decode (instructions/src/decoding.rs)                                   *)
(***************************************************************************)
DecOk(i)  == [ok |-> TRUE,  instr |-> i,       err |-> "None", val |-> 0]
DecErr(w) == [ok |-> FALSE, instr |-> NoInstr, err |-> "UnrecognisedBytecode", val |-> w]
NoDec     == [ok |-> FALSE, instr |-> NoInstr, err |-> "NotRun", val |-> 0]

\* (mutant: the third nibble used twice)
DecAddressDup(n2, n3, n4) == Shl16(n2, 8) + Shl16(n3, 4) + n3

\* ((n2 as u16) << 8) + ((n3 as u16) << 4) + n4 as u16
DecAddress(n2, n3, n4) == Shl16(n2, 8) + Shl16(n3, 4) + n4

decode(bs) ==
    LET b1 == bs[1]
        b2 == bs[2]
        n1 == Shr(And8(b1, \hF0), 4)
        n2 == And8(b1, 15)
        n3 == Shr(And8(b2, \hF0), 4)
        n4 == And8(b2, 15)
    IN
    CASE n1 = 0 /\ n2 = 0 /\ n3 = 14 /\ n4 = 0  -> DecOk(I0("ClearScreen"))
      [] n1 = 0 /\ n2 = 0 /\ n3 = 14 /\ n4 = 14 -> DecOk(I0("Return"))
      [] n1 = 1  -> DecOk(I1("Jump", DecAddress(n2, n3, n4)))
      [] n1 = 2  -> DecOk(I1("Call", DecAddress(n2, n3, n4)))
      [] n1 = 3  -> DecOk(ILit("SkipIfEqual", n2, b2))
      [] n1 = 4  -> DecOk(ILit("SkipIfNotEqual", n2, b2))
      [] n1 = 5 /\ n4 = 0  -> DecOk(IReg("SkipIfEqual", n2, n3))
      [] n1 = 6  -> DecOk(ILit("LoadRegister", n2, b2))
      [] n1 = 7  -> DecOk(I2("AddNoCarry", n2, b2))
      [] n1 = 8 /\ n4 = 0  -> DecOk(IReg("LoadRegister", n2, n3))
      [] n1 = 8 /\ n4 = 1  -> DecOk(I2("Or", n2, n3))
      [] n1 = 8 /\ n4 = 2  -> DecOk(I2("And", n2, n3))
      [] n1 = 8 /\ n4 = 3  -> DecOk(I2("Xor", n2, n3))
      [] n1 = 8 /\ n4 = 4  -> DecOk(I2("AddWithCarry", n2, n3))
      [] n1 = 8 /\ n4 = 5  -> DecOk(I2("Sub", n2, n3))
      [] n1 = 8 /\ n4 = 6  -> DecOk(I1("ShiftRight", n2))
      [] n1 = 8 /\ n4 = 7  -> DecOk(I2("SubN", n2, n3))
      [] n1 = 8 /\ n4 = 14 -> DecOk(I1("ShiftLeft", n2))
      [] n1 = 9 /\ n4 = 0  -> DecOk(IReg("SkipIfNotEqual", n2, n3))
      [] n1 = 10 -> DecOk(I1("LoadMemoryRegister", DecAddress(n2, n3, n4)))
      [] n1 = 11 -> DecOk(I1("JumpPlusV0", DecAddress(n2, n3, n4)))
      [] n1 = 12 -> DecOk(I2("LoadRandomWithMask", n2, b2))
      [] n1 = 13 -> DecOk(I3("Draw", n2, n3, n4))
      [] n1 = 14 /\ n3 = 9  /\ n4 = 14 -> DecOk(I1("SkipIfKeyPressed", n2))
      [] n1 = 14 /\ n3 = 10 /\ n4 = 1  -> DecOk(I1("SkipIfKeyNotPressed", n2))
      [] n1 = 15 /\ n3 = 0 /\ n4 = 7   -> DecOk(I1("LoadFromDelayTimer", n2))
      [] n1 = 15 /\ n3 = 0 /\ n4 = 10  -> DecOk(I1("WaitForKeyPress", n2))
      [] n1 = 15 /\ n3 = 1 /\ n4 = 5   -> DecOk(I1("LoadIntoDelayTimer", n2))
      [] n1 = 15 /\ n3 = 1 /\ n4 = 8   -> DecOk(I1("LoadIntoSoundTimer", n2))
      [] n1 = 15 /\ n3 = 1 /\ n4 = 14  -> DecOk(I1("AddToMemoryRegister", n2))
      [] n1 = 15 /\ n3 = 2 /\ n4 = 9   -> DecOk(I1("LoadDigitAddress", n2))
      [] n1 = 15 /\ n3 = 3 /\ n4 = 3   -> DecOk(I1("StoreBcdInMemory", n2))
      [] n1 = 15 /\ n3 = 5 /\ n4 = 5   -> DecOk(I1("StoreRegistersInMemory", n2))
      [] n1 = 15 /\ n3 = 6 /\ n4 = 5   -> DecOk(I1("ReadRegistersFromMemory", n2))
      [] OTHER -> DecErr(from_be_bytes(<<b1, b2>>))

(***************************************************************************)
(* Codec specifications.  EncSpec draws an Instruction, encodes it and     *)
(* decodes the bytes; DecSpec draws two bytes, decodes them and encodes    *)
(* the instruction.                                                        *)
(***************************************************************************)
\* u8 register fields: every valid index and some that are too big
RegInputs    == (0..15) \cup {16, 26, 255}
\* u16 address fields: every 12-bit address and some that are too big
AddrInputs   == (0..\hFFF) \cup {\h1000, \h1234, \hFFFF}
ByteInputs   == 0..255
\* Draw's u8 nibble field
NibbleInputs == (0..15) \cup {16, 87, 255}

AddrOps    == {"Jump", "Call", "LoadMemoryRegister", "JumpPlusV0"}
OperandOps == {"SkipIfEqual", "SkipIfNotEqual", "LoadRegister"}
RegByteOps == {"AddNoCarry", "LoadRandomWithMask"}
RegRegOps  == {"Or", "And", "Xor", "AddWithCarry", "Sub", "SubN"}
RegOps     == {"ShiftRight", "ShiftLeft", "SkipIfKeyPressed", "SkipIfKeyNotPressed",
               "LoadFromDelayTimer", "WaitForKeyPress", "LoadIntoDelayTimer",
               "LoadIntoSoundTimer", "AddToMemoryRegister", "LoadDigitAddress",
               "StoreBcdInMemory", "StoreRegistersInMemory", "ReadRegistersFromMemory"}
NoArgOps   == {"Nop", "ClearScreen", "Return"}

\* The instructions EncSpec draws: every variant, each field from its inputs
IsInstrInput(i) ==
    \/ \E op \in NoArgOps : i = I0(op)
    \/ \E op \in AddrOps, a \in AddrInputs : i = I1(op, a)
    \/ \E op \in OperandOps, x \in RegInputs, r \in RegInputs : i = IReg(op, x, r)
    \/ \E op \in OperandOps, x \in RegInputs, b \in ByteInputs : i = ILit(op, x, b)
    \/ \E op \in RegByteOps, x \in RegInputs, b \in ByteInputs : i = I2(op, x, b)
    \/ \E op \in RegRegOps, x \in RegInputs, y \in RegInputs : i = I2(op, x, y)
    \/ \E op \in RegOps, x \in RegInputs : i = I1(op, x)
    \/ \E x \in RegInputs, y \in RegInputs, n \in NibbleInputs : i = I3("Draw", x, y, n)

\* The interpreter is not part of the codec behaviours
\* What the last step did: its branch, and the address and instruction it fetched;
\* calls holds the addresses of the Call instructions executed and not yet returned
\* from, shown the display the step started from
\* No panic message
NoReport == [kind |-> "None", bytecode |-> 0, address |-> 0]

NoLast ==
    [branch |-> "none", addr |-> 0, ins |-> NoInstr, calls |-> <<>>, report |-> NoReport,
     shown |-> {}]

\* No CodegenError
NoCgError == [kind |-> "None", name |-> "", a |-> 0, b |-> 0, enc |-> "None", span |-> 0]

\* codegen has not been called
\* main has not run
MainIdle ==
    /\ source = <<>> /\ tokens = <<>> /\ current = 0
    /\ stage = "none" /\ exit_status = "none" /\ output_file = <<>>

AsmIdle ==
    /\ statements = <<>> /\ cgStatus = "none" /\ cgError = NoCgError
    /\ blob = <<>> /\ lowered = <<>> /\ alias_map = <<>>
    /\ had_error = FALSE /\ reports = <<>>

MachineIdle ==
    /\ memory = <<>> /\ stack = <<>> /\ v_registers = <<>>
    /\ memory_register = 0 /\ delay_timer = 0 /\ sound_timer = 0
    /\ program_counter = 0 /\ stack_pointer = 0 /\ display = {}
    /\ last_timer_decrement = 0 /\ waiting_for_key_press = <<>>
    /\ rom = <<>> /\ now = 0 /\ panic = "None" /\ last = NoLast /\ decTimes = <<>>

CodecInit(m) ==
    /\ mode = m
    /\ phase = "input"
    /\ encRes = NoEnc
    /\ decRes = NoDec
    /\ MachineIdle
    /\ AsmIdle
    /\ MainIdle

EncInit ==
    /\ CodecInit("enc")
    /\ IsInstrInput(instr)
    /\ word = <<0, 0>>

DecInit ==
    /\ CodecInit("dec")
    /\ instr = NoInstr
    /\ \E b1 \in ByteInputs, b2 \in ByteInputs : word = <<b1, b2>>

\* encode(instr)
EncodeInstr ==
    /\ mode = "enc" /\ phase = "input"
    /\ encRes' = encode(instr)
    /\ phase' = "encoded"
    /\ UNCHANGED <<mode, instr, word, decRes, machVars, envVars, asmVars, mainVars>>

\* decode(bytes) of the bytes encode returned
DecodeEncoded ==
    /\ mode = "enc" /\ phase = "encoded" /\ encRes.ok
    /\ decRes' = decode(encRes.bytes)
    /\ phase' = "decoded"
    /\ UNCHANGED <<mode, instr, word, encRes, machVars, envVars, asmVars, mainVars>>

\* decode(word)
DecodeWord ==
    /\ mode = "dec" /\ phase = "input"
    /\ decRes' = decode(word)
    /\ phase' = "decoded"
    /\ UNCHANGED <<mode, instr, word, encRes, machVars, envVars, asmVars, mainVars>>

\* encode(i) of the instruction decode returned
EncodeDecoded ==
    /\ mode = "dec" /\ phase = "decoded" /\ decRes.ok
    /\ encRes' = encode(decRes.instr)
    /\ phase' = "encoded"
    /\ UNCHANGED <<mode, instr, word, decRes, machVars, envVars, asmVars, mainVars>>

EncNext == EncodeInstr \/ DecodeEncoded
DecNext == DecodeWord \/ EncodeDecoded

EncSpec == EncInit /\ [][EncNext]_vars
DecSpec == DecInit /\ [][DecNext]_vars

(***************************************************************************)
(* Properties of the codec                                                 *)
(***************************************************************************)
\* The ranges of an instruction's fields: 12-bit addresses, 4-bit register
\* indices, a 4-bit Draw nibble.
FieldsInRange(i) ==
    CASE i.op \in AddrOps    -> i.x <= \hFFF
      [] i.op \in OperandOps -> i.x <= 15 /\ (i.kind = "Register" => i.y <= 15)
      [] i.op \in RegByteOps -> i.x <= 15
      [] i.op \in RegRegOps  -> i.x <= 15 /\ i.y <= 15
      [] i.op \in RegOps     -> i.x <= 15
      [] i.op = "Draw"       -> i.x <= 15 /\ i.y <= 15 /\ i.n <= 15
      [] OTHER               -> TRUE

\* C1: for every instruction other than Nop whose fields are in range,
\* encode succeeds and decode(encode(i)) is exactly i, the Register/Literal
\* discriminator included.
C1_EncodeDecodeRoundTrip ==
    (mode = "enc" /\ instr.op # "Nop" /\ FieldsInRange(instr)) =>
        /\ phase # "input" => encRes.ok
        /\ phase = "decoded" => decRes.ok /\ decRes.instr = instr

C1_Witness ==
    /\ mode = "enc" /\ phase = "decoded"
    /\ instr = IReg("SkipIfEqual", 6, 12)
    /\ encRes.bytes = <<\h56, \hC0>>
    /\ decRes.instr = instr

\* The word with the y nibble cleared when it is 8xy6 or 8xyE (ShiftRight
\* and ShiftLeft carry no y field), the word itself otherwise.
CanonWord(w) ==
    IF w[1] \div 16 = 8 /\ w[2] % 16 \in {6, 14} THEN <<w[1], w[2] % 16>> ELSE w

\* C2 (as claimed): for every word w that decode accepts, with i = decode(w),
\* encode(i) returns exactly w.
C2_DecodeEncodeExact ==
    (mode = "dec" /\ phase = "encoded") => encRes.ok /\ encRes.bytes = word

\* C2 (amended): for every word w that decode accepts, encode(decode(w))
\* succeeds and returns w, except that for 8xy6 and 8xyE it returns the word
\* with the y nibble cleared (8x06, 8x0E).
C2_DecodeEncodeCanonical ==
    (mode = "dec" /\ phase = "encoded") =>
        /\ decRes.ok
        /\ encRes.ok
        /\ encRes.bytes = CanonWord(word)

C2_Witness ==
    /\ mode = "dec" /\ phase = "encoded"
    /\ word = <<\h84, \h96>>
    /\ decRes.instr = I1("ShiftRight", 4)
    /\ encRes.bytes = <<\h84, \h06>>

\* The words no opcode pattern matches
Rejected(w) ==
    LET n1 == w \div \h1000
        kk == w % \h100
        n  == w % \h10
    IN  \/ n1 = 0 /\ w \notin {\h00E0, \h00EE}
        \/ n1 \in {5, 9} /\ n # 0
        \/ n1 = 8 /\ n \in {8, 9, 10, 11, 12, 13, 15}
        \/ n1 = 14 /\ kk \notin {\h9E, \hA1}
        \/ n1 = 15 /\ kk \notin {\h07, \h0A, \h15, \h18, \h1E, \h29, \h33, \h55, \h65}

FirstOffence(i) ==
    IF i.op \in AddrOps THEN <<"AddressTooBig", i.x>>
    ELSE IF i.x > 15 THEN <<"RegisterTooBig", i.x>>
    ELSE IF i.y > 15 /\ (\/ i.op \in RegRegOps
                         \/ i.op = "Draw"
                         \/ i.op \in OperandOps /\ i.kind = "Register")
         THEN <<"RegisterTooBig", i.y>>
    ELSE <<"NibbleTooBig", i.n>>

\* C5: encode fails exactly when a field is out of range, with AddressTooBig,
\* RegisterTooBig or NibbleTooBig naming the first offending operand in
\* operand order; Jump(0xFFF) gives 0x1FFF and Jump(0x1000) fails.
C5_EncodeErrors ==
    (mode = "enc" /\ phase # "input") =>
        /\ encRes.ok = FieldsInRange(instr)
        /\ (instr.op \in AddrOps) => (encRes.ok = ((instr.x \div \h1000) % 16 = 0))
        /\ ~encRes.ok => <<encRes.err, encRes.val>> = FirstOffence(instr)
        /\ encRes.ok => encRes.err = "None"
        /\ instr = I1("Jump", \hFFF) => encRes.bytes = <<\h1F, \hFF>>
        /\ instr = I1("Jump", \h1000) =>
                ~encRes.ok /\ encRes.err = "AddressTooBig" /\ encRes.val = \h1000

C5_Witness ==
    /\ mode = "enc" /\ phase = "encoded"
    /\ instr = I3("Draw", 255, 16, 87)
    /\ ~encRes.ok /\ encRes.err = "RegisterTooBig" /\ encRes.val = 255

(***************************************************************************)
(* The interpreter (interpreter/src/interpreter/mod.rs).  The operators    *)
(* below work on a record m of the struct's fields plus panic, which is    *)
(* "None" until the code panics; a panicked machine does nothing more.     *)
(***************************************************************************)
MemorySize    == 4096
StackSize     == 16
DisplayWidth  == 64
DisplayHeight == 32
RomStart      == 512
\* Where the built-in font starts
FONT_ADDRESS_START == 80

\* self.memory[a], the index in bounds
MemRead(mem, a) == IF a \in DOMAIN mem THEN mem[a] ELSE 0
\* self.memory[a] = v, the index in bounds
MemWrite(mem, a, v) ==
    IF v = 0 THEN [k \in (DOMAIN mem) \ {a} |-> mem[k]]
    ELSE [k \in (DOMAIN mem) \cup {a} |-> IF k = a THEN v ELSE mem[k]]

InitMemoryOneByteLate(r) ==
    [a \in {RomStart + k : k \in {j \in 1..Len(r) : r[j] # 0 /\ RomStart + j < MemorySize}}
        |-> r[a - RomStart]]

\* init_memory: a zeroed image with the ROM copied in at 0x200; mem[0x200 + offset]
\* is out of range, and the call aborts, when the ROM is longer than the space
\* above 0x200
init_memory(r) ==
    [a \in {RomStart + k - 1 : k \in {j \in 1..Len(r) : r[j] # 0 /\ RomStart + j - 1 < MemorySize}}
        |-> r[a - RomStart + 1]]

\* Pixel and its ^ and & (Black = 0, White = 1)
PixelAt(d, y, x) == IF <<y, x>> \in d THEN "White" ELSE "Black"
PixelOr(a, b) == IF a = "White" \/ b = "White" THEN "White" ELSE "Black"
PixelXor(a, b) == IF a # b THEN "White" ELSE "Black"
PixelAnd(a, b) == IF a = "White" /\ b = "White" THEN "White" ELSE "Black"
\* self.display[y][x] = p
SetPixel(d, y, x, p) == IF p = "White" THEN d \cup {<<y, x>>} ELSE d \ {<<y, x>>}

Panicked(m, why) == [m EXCEPT !.panic = why]

\* Chip8Interpreter::new
NewMachine(r) ==
    [memory |-> init_memory(r),
     stack |-> [k \in 0..(StackSize - 1) |-> 0],
     v_registers |-> [k \in 0..15 |-> 0],
     memory_register |-> 0,
     delay_timer |-> 0,
     sound_timer |-> 0,
     program_counter |-> RomStart,
     stack_pointer |-> 0,
     display |-> {},
     last_timer_decrement |-> 0,
     waiting_for_key_press |-> <<>>,
     panic |-> IF RomStart + Len(r) > MemorySize THEN "IndexOutOfBounds" ELSE "None"]

\* reg / mut_reg
reg(m, x) == m.v_registers[x]
set_reg(m, x, v) == [m EXCEPT !.v_registers[x] = v]

\* get_operand
get_operand(m, i) == IF i.kind = "Register" THEN reg(m, i.y) ELSE i.y

\* fetch: the two bytes at PC, and PC advanced by 2 modulo the memory size
fetch(m) ==
    LET pc == m.program_counter IN
    IF pc >= MemorySize \/ pc + 1 >= MemorySize
    THEN [m |-> Panicked(m, "IndexOutOfBounds"), bytes |-> <<0, 0>>]
    ELSE [m |-> [m EXCEPT !.program_counter = (pc + 2) % MemorySize],
          bytes |-> <<MemRead(m.memory, pc), MemRead(m.memory, pc + 1)>>]

\* self.program_counter += 2 of the skip instructions
Skip(m) == [m EXCEPT !.program_counter = m.program_counter + 2]

ExecReturnWrapping(m) ==
    IF m.stack_pointer = 0
    THEN [m EXCEPT !.stack_pointer = 255, !.program_counter = 0]
    ELSE [m EXCEPT !.stack_pointer = m.stack_pointer - 1,
                   !.program_counter = m.stack[m.stack_pointer - 1]]

ExecReturn(m) ==
    IF m.stack_pointer = 0 THEN Panicked(m, "StackPointerNegative")
    ELSE [m EXCEPT !.stack_pointer = m.stack_pointer - 1,
                   !.program_counter = m.stack[m.stack_pointer - 1]]

ExecCallStoresOwnAddress(m, address) ==
    IF m.stack_pointer >= StackSize THEN Panicked(m, "IndexOutOfBounds")
    ELSE [m EXCEPT !.stack[m.stack_pointer] = (m.program_counter - 2) % MemorySize,
                   !.stack_pointer = m.stack_pointer + 1,
                   !.program_counter = address]

ExecCall(m, address) ==
    IF m.stack_pointer >= StackSize THEN Panicked(m, "IndexOutOfBounds")
    ELSE [m EXCEPT !.stack[m.stack_pointer] = m.program_counter,
                   !.stack_pointer = m.stack_pointer + 1,
                   !.program_counter = address]

ExecAddFlagFirst(m, x, y) ==
    LET sum == reg(m, x) + reg(m, y)
    IN  set_reg(set_reg(m, 15, IF sum > 255 THEN 1 ELSE 0), x, sum % 256)

\* overflowing_add / overflowing_sub on u8, then Vx and VF written in that order
ExecAddWithCarry(m, x, y) ==
    LET sum == reg(m, x) + reg(m, y)
    IN  set_reg(set_reg(m, x, sum % 256), 15, IF sum > 255 THEN 1 ELSE 0)

ExecSubtractNotBorrow(m, x, a, b) ==
    set_reg(set_reg(m, x, (a - b) % 256), 15, IF a >= b THEN 1 ELSE 0)

ExecSubtract(m, x, a, b) ==
    set_reg(set_reg(m, x, (a - b) % 256), 15, IF a < b THEN 1 ELSE 0)

ExecShiftRight(m, x) ==
    LET m1 == set_reg(m, 15, And8(reg(m, x), 1))
    IN  set_reg(m1, x, Shr(reg(m1, x), 1))

ExecShiftLeftTopBit(m, x) ==
    LET m1 == set_reg(m, 15, reg(m, x) \div 128)
    IN  set_reg(m1, x, (reg(m1, x) * 2) % 256)

ExecShiftLeft(m, x) ==
    LET m1 == set_reg(m, 15, And8(reg(m, x), 128))
    IN  set_reg(m1, x, (reg(m1, x) * 2) % 256)

RECURSIVE DrawPixelsWrapping(_, _, _, _, _)
DrawPixelsWrapping(m, row, x, y, pos) ==
    IF pos < 0 THEN m
    ELSE LET pixel == IF (row \div Pow2(pos)) % 2 = 1 THEN "White" ELSE "Black"
             xw == x % DisplayWidth
             old_pixel == PixelAt(m.display, y, xw)
             m1 == [m EXCEPT !.display = SetPixel(m.display, y, xw, PixelXor(old_pixel, pixel))]
             m2 == IF PixelAnd(old_pixel, pixel) = "White" THEN set_reg(m1, 15, 1) ELSE m1
         IN  DrawPixelsWrapping(m2, row, x + 1, y, pos - 1)

\* One sprite row: for pixel in (0..=7).rev(), leftmost bit first, stopping at x >= 64
RECURSIVE DrawPixels(_, _, _, _, _)
DrawPixels(m, row, x, y, pos) ==
    IF pos < 0 THEN m
    ELSE IF x >= DisplayWidth THEN m
    ELSE LET pixel == IF (row \div Pow2(pos)) % 2 = 1 THEN "White" ELSE "Black"
             old_pixel == PixelAt(m.display, y, x)
             m1 == [m EXCEPT !.display = SetPixel(m.display, y, x, PixelXor(old_pixel, pixel))]
             m2 == IF PixelAnd(old_pixel, pixel) = "White" THEN set_reg(m1, 15, 1) ELSE m1
         IN  DrawPixels(m2, row, x + 1, y, pos - 1)

\* for offset in 0..n: the row is read first, then y >= 32 returns
RECURSIVE DrawRows(_, _, _, _, _)
DrawRows(m, offset, n, first_x, y) ==
    IF offset >= n THEN m
    ELSE IF m.memory_register + offset >= MemorySize THEN Panicked(m, "IndexOutOfBounds")
    ELSE IF y >= DisplayHeight THEN m
    ELSE DrawRows(DrawPixels(m, MemRead(m.memory, m.memory_register + offset), first_x, y, 7),
                  offset + 1, n, first_x, y + 1)

ExecDrawKeepsFlag(m, x, y, n) ==
    LET first_x == reg(m, x) % DisplayWidth
        first_y == reg(m, y) % DisplayHeight
    IN  DrawRows(m, 0, n, first_x, first_y)

ExecDraw(m, x, y, n) ==
    LET first_x == reg(m, x) % DisplayWidth
        first_y == reg(m, y) % DisplayHeight
    IN  DrawRows(set_reg(m, 15, 0), 0, n, first_x, first_y)

\* keys[self.reg(x) as usize] on a [bool; 16]
ExecSkipIfKey(m, x, keys, wanted) ==
    IF reg(m, x) >= 16 THEN Panicked(m, "IndexOutOfBounds")
    ELSE IF (reg(m, x) \in keys) = wanted THEN Skip(m) ELSE m

ExecStoreBcdUnitsFirst(m, x) ==
    LET num == reg(m, x)
        hundreds == (num - (num % 100)) \div 100
        tens == (num - (num % 10) - hundreds * 100) \div 10
        units == num - hundreds * 100 - tens * 10
        i == m.memory_register
        m1 == [m EXCEPT !.memory = MemWrite(m.memory, i, units)]
        m2 == [m1 EXCEPT !.memory = MemWrite(m1.memory, i + 1, tens)]
        m3 == [m2 EXCEPT !.memory = MemWrite(m2.memory, i + 2, hundreds)]
    IN  IF i + 2 >= MemorySize THEN Panicked(m, "IndexOutOfBounds") ELSE m3

ExecStoreBcd(m, x) ==
    LET num == reg(m, x)
        hundreds == (num - (num % 100)) \div 100
        tens == (num - (num % 10) - hundreds * 100) \div 10
        units == num - hundreds * 100 - tens * 10
        i == m.memory_register
        m1 == [m EXCEPT !.memory = MemWrite(m.memory, i, hundreds)]
        m2 == [m1 EXCEPT !.memory = MemWrite(m1.memory, i + 1, tens)]
        m3 == [m2 EXCEPT !.memory = MemWrite(m2.memory, i + 2, units)]
    IN  IF i >= MemorySize THEN Panicked(m, "IndexOutOfBounds")
        ELSE IF i + 1 >= MemorySize THEN Panicked(m1, "IndexOutOfBounds")
        ELSE IF i + 2 >= MemorySize THEN Panicked(m2, "IndexOutOfBounds")
        ELSE m3

RECURSIVE StoreRegistersExclusive(_, _, _)
StoreRegistersExclusive(m, x, reg_num) ==
    IF x >= reg_num THEN m
    ELSE IF m.memory_register + x >= MemorySize THEN Panicked(m, "IndexOutOfBounds")
    ELSE StoreRegistersExclusive(
             [m EXCEPT !.memory = MemWrite(m.memory, m.memory_register + x, reg(m, x))],
             x + 1, reg_num)

\* for x in 0..=reg_num { memory[I + x] = Vx }
RECURSIVE StoreRegisters(_, _, _)
StoreRegisters(m, x, reg_num) ==
    IF x > reg_num THEN m
    ELSE IF m.memory_register + x >= MemorySize THEN Panicked(m, "IndexOutOfBounds")
    ELSE StoreRegisters([m EXCEPT !.memory = MemWrite(m.memory, m.memory_register + x, reg(m, x))],
                        x + 1, reg_num)

\* for x in 0..=reg_num { Vx = memory[I + x] }
RECURSIVE ReadRegisters(_, _, _)
ReadRegisters(m, x, reg_num) ==
    IF x > reg_num THEN m
    ELSE IF m.memory_register + x >= MemorySize THEN Panicked(m, "IndexOutOfBounds")
    ELSE ReadRegisters(set_reg(m, x, MemRead(m.memory, m.memory_register + x)), x + 1, reg_num)

ExecAddToMemoryRegisterUnmasked(m, x) ==
    [m EXCEPT !.memory_register = (m.memory_register + reg(m, x)) % 65536]

\* (I + Vx) & 0xFFF
ExecAddToMemoryRegister(m, x) ==
    [m EXCEPT !.memory_register = And16(m.memory_register + reg(m, x), 4095)]

\* execute: i is the decoded instruction, keys the set of pressed key indices,
\* rnd the value of rand::random::<u8>()
execute(m, i, keys, rnd) ==
    CASE i.op = "ClearScreen" -> [m EXCEPT !.display = {}]
      [] i.op = "Return" -> ExecReturn(m)
      [] i.op = "Jump" -> [m EXCEPT !.program_counter = i.x]
      [] i.op = "Call" -> ExecCall(m, i.x)
      [] i.op = "SkipIfEqual" -> IF reg(m, i.x) = get_operand(m, i) THEN Skip(m) ELSE m
      [] i.op = "SkipIfNotEqual" -> IF reg(m, i.x) # get_operand(m, i) THEN Skip(m) ELSE m
      [] i.op = "LoadRegister" -> set_reg(m, i.x, get_operand(m, i))
      [] i.op = "AddNoCarry" -> set_reg(m, i.x, (reg(m, i.x) + i.y) % 256)
      [] i.op = "Or" -> set_reg(m, i.x, Or8(reg(m, i.x), reg(m, i.y)))
      [] i.op = "And" -> set_reg(m, i.x, And8(reg(m, i.x), reg(m, i.y)))
      [] i.op = "Xor" -> set_reg(m, i.x, Xor8(reg(m, i.x), reg(m, i.y)))
      [] i.op = "AddWithCarry" -> ExecAddWithCarry(m, i.x, i.y)
      [] i.op = "Sub" -> ExecSubtract(m, i.x, reg(m, i.x), reg(m, i.y))
      [] i.op = "ShiftRight" -> ExecShiftRight(m, i.x)
      [] i.op = "SubN" -> ExecSubtract(m, i.x, reg(m, i.y), reg(m, i.x))
      [] i.op = "ShiftLeft" -> ExecShiftLeft(m, i.x)
      [] i.op = "LoadMemoryRegister" -> [m EXCEPT !.memory_register = i.x]
      [] i.op = "JumpPlusV0" -> [m EXCEPT !.program_counter = And16(i.x + reg(m, 0), 4095)]
      [] i.op = "LoadRandomWithMask" -> set_reg(m, i.x, And8(rnd, i.y))
      [] i.op = "Draw" -> ExecDraw(m, i.x, i.y, i.n)
      [] i.op = "SkipIfKeyPressed" -> ExecSkipIfKey(m, i.x, keys, TRUE)
      [] i.op = "SkipIfKeyNotPressed" -> ExecSkipIfKey(m, i.x, keys, FALSE)
      [] i.op = "LoadFromDelayTimer" -> set_reg(m, i.x, m.delay_timer)
      [] i.op = "WaitForKeyPress" -> [m EXCEPT !.waiting_for_key_press = <<i.x>>]
      [] i.op = "LoadIntoDelayTimer" -> [m EXCEPT !.delay_timer = reg(m, i.x)]
      [] i.op = "LoadIntoSoundTimer" -> [m EXCEPT !.sound_timer = reg(m, i.x)]
      [] i.op = "AddToMemoryRegister" -> ExecAddToMemoryRegister(m, i.x)
      [] i.op = "LoadDigitAddress" ->
            [m EXCEPT !.memory_register = FONT_ADDRESS_START + 5 * And8(reg(m, i.x), 15)]
      [] i.op = "StoreBcdInMemory" -> ExecStoreBcd(m, i.x)
      [] i.op = "StoreRegistersInMemory" -> StoreRegisters(m, 0, i.x)
      [] i.op = "ReadRegistersFromMemory" -> ReadRegisters(m, 0, i.x)

\* Duration::from_secs_f32(1. / 60.), in clock ticks
TimerPeriod == 3

\* saturating_sub(1)
saturating_sub1(t) == IF t = 0 THEN 0 ELSE t - 1

DecrementUnconditionally(m, t, skew) ==
    [m EXCEPT !.last_timer_decrement = t + skew,
              !.delay_timer = saturating_sub1(m.delay_timer),
              !.sound_timer = saturating_sub1(m.sound_timer)]

\* decrement_timers: t is the clock when elapsed() is read, t + skew the clock
\* when Instant::now() is read for the new timestamp
decrement_timers(m, t, skew) ==
    IF t - m.last_timer_decrement >= TimerPeriod
    THEN [m EXCEPT !.last_timer_decrement = t + skew,
                   !.delay_timer = saturating_sub1(m.delay_timer),
                   !.sound_timer = saturating_sub1(m.sound_timer)]
    ELSE m

HighestPressed(keys) == CHOOSE k \in keys : \A j \in keys : k >= j

\* keys.iter().enumerate().find(|(_idx, pressed)| **pressed)
LowestPressed(keys) == CHOOSE k \in keys : \A j \in keys : k <= j

\* step, the branch taken while waiting_for_key_press is Some(x)
StepWait(m, keys) ==
    IF keys = {} THEN m
    ELSE [set_reg(m, m.waiting_for_key_press[1], LowestPressed(keys))
            EXCEPT !.waiting_for_key_press = <<>>]

\* step, the other branch: fetch, decode (a rejected word panics), execute
StepRun(m, keys, rnd) ==
    LET f == fetch(m)
        d == decode(f.bytes)
    IN  IF f.m.panic # "None" THEN f.m
        ELSE IF ~d.ok THEN Panicked(f.m, "UnrecognisedBytecode")
        ELSE execute(f.m, d.instr, keys, rnd)

\* step: one branch, then decrement_timers
step(m, keys, rnd, t, skew) ==
    LET m1 == IF m.waiting_for_key_press # <<>> THEN StepWait(m, keys) ELSE StepRun(m, keys, rnd)
    IN  IF m1.panic # "None" THEN m1 ELSE decrement_timers(m1, t, skew)

\* The instruction the next step will execute, NoInstr when it will execute none
NextInstr(m) ==
    LET f == fetch(m)
        d == decode(f.bytes)
    IN  IF m.waiting_for_key_press = <<>> /\ f.m.panic = "None" /\ d.ok THEN d.instr ELSE NoInstr

\* rand::random::<u8>() is only called by LoadRandomWithMask
RandInputs(m) == IF NextInstr(m).op = "LoadRandomWithMask" THEN 0..255 ELSE {0}

\* The interpreter as a record of its fields
Machine ==
    [memory |-> memory, stack |-> stack, v_registers |-> v_registers,
     memory_register |-> memory_register, delay_timer |-> delay_timer,
     sound_timer |-> sound_timer, program_counter |-> program_counter,
     stack_pointer |-> stack_pointer, display |-> display,
     last_timer_decrement |-> last_timer_decrement,
     waiting_for_key_press |-> waiting_for_key_press, panic |-> panic]

\* The fields of the interpreter are those of the record m
MachineIs(m) ==
    /\ memory = m.memory /\ stack = m.stack /\ v_registers = m.v_registers
    /\ memory_register = m.memory_register /\ delay_timer = m.delay_timer
    /\ sound_timer = m.sound_timer /\ program_counter = m.program_counter
    /\ stack_pointer = m.stack_pointer /\ display = m.display
    /\ last_timer_decrement = m.last_timer_decrement
    /\ waiting_for_key_press = m.waiting_for_key_press /\ panic = m.panic

\* The fields of the interpreter become those of the record m
MachineBecomes(m) ==
    /\ memory' = m.memory /\ stack' = m.stack /\ v_registers' = m.v_registers
    /\ memory_register' = m.memory_register /\ delay_timer' = m.delay_timer
    /\ sound_timer' = m.sound_timer /\ program_counter' = m.program_counter
    /\ stack_pointer' = m.stack_pointer /\ display' = m.display
    /\ last_timer_decrement' = m.last_timer_decrement
    /\ waiting_for_key_press' = m.waiting_for_key_press /\ panic' = m.panic

\* What a step from m into m1 records in last; ins is NextInstr(m)
LastOf(m, m1, ins) ==
    IF m.waiting_for_key_press # <<>>
    THEN [last EXCEPT !.branch = "wait", !.shown = m.display]
    ELSE [branch |-> IF m1.panic = "None" THEN "exec" ELSE "panic",
          addr |-> m.program_counter,
          ins |-> ins,
          calls |-> IF m1.panic # "None" THEN last.calls
                    ELSE IF ins.op = "Call" THEN Append(last.calls, m.program_counter)
                    ELSE IF ins.op = "Return" /\ last.calls # <<>>
                    THEN SubSeq(last.calls, 1, Len(last.calls) - 1)
                    ELSE last.calls,
          report |-> NoReport,
          shown |-> m.display]

\* The panic message of step for a word that decode rejects: the bytecode of the
\* DecodingError and program_counter - 2, computed on the u16 PC that fetch left.
\* With that PC below 2 the subtraction overflows: the build with overflow checks
\* aborts on the subtraction itself, the build without them prints the wrapped
\* value.
PanicReports(m1, bytes) ==
    IF m1.panic # "UnrecognisedBytecode" THEN {NoReport}
    ELSE IF m1.program_counter >= 2
    THEN {[kind |-> "UnrecognisedBytecode", bytecode |-> decode(bytes).val,
           address |-> m1.program_counter - 2]}
    ELSE {[kind |-> "SubtractOverflow", bytecode |-> 0, address |-> 0],
          [kind |-> "UnrecognisedBytecode", bytecode |-> decode(bytes).val,
           address |-> (m1.program_counter - 2) % 65536]}

(***************************************************************************)
(* ROMs the interpreter is started on, written as instruction lists and    *)
(* put into bytes by encode.                                                *)
(***************************************************************************)
RomOf(is) ==
    [k \in 1..(2 * Len(is)) |-> encode(is[(k + 1) \div 2]).bytes[IF k % 2 = 1 THEN 1 ELSE 2]]

\* Fifteen sprite rows
SpriteRows == <<255, 129, 165, 24, 60, 1, 128, 255, 66, 36, 90, 7, 224, 85, 170>>

\* Two draws of the same n-row sprite at random places around the right and
\* bottom edges: x in 58..65 and y in 30..33 before the modulo
RomDraw(n) ==
    RomOf(<<I2("LoadRandomWithMask", 0, 7), I2("AddNoCarry", 0, 58),
         I2("LoadRandomWithMask", 1, 3), I2("AddNoCarry", 1, 30),
         I1("LoadMemoryRegister", RomStart + 24),
         I3("Draw", 0, 1, n),
         I2("LoadRandomWithMask", 0, 7), I2("AddNoCarry", 0, 58),
         I2("LoadRandomWithMask", 1, 3), I2("AddNoCarry", 1, 30),
         I3("Draw", 0, 1, n)>>) \o <<0, 0>> \o SpriteRows

\* Draws whose coordinate register is VF itself
RomDrawVF ==
    RomOf(<<ILit("LoadRegister", 15, 62),
         I1("LoadMemoryRegister", RomStart + 12),
         I3("Draw", 15, 15, 3),
         I3("Draw", 15, 15, 3),
         I3("Draw", 0, 0, 15)>>) \o <<0, 0>> \o SpriteRows

\* Writes SNE V0, 0x00 into the last-but-one word of memory and jumps to it
RomSkipEdge ==
    RomOf(<<ILit("LoadRegister", 0, 64), ILit("LoadRegister", 1, 0),
         I1("LoadMemoryRegister", 4092), I1("StoreRegistersInMemory", 1),
         I1("Jump", 4092)>>)

\* Writes CLS into the last word of memory and jumps to it
RomWrap ==
    RomOf(<<ILit("LoadRegister", 0, 0), ILit("LoadRegister", 1, 224),
         I1("LoadMemoryRegister", 4094), I1("StoreRegistersInMemory", 1),
         I1("Jump", 4094)>>)

\* A call, a return, then calls without returns
RomCall == RomOf(<<I1("Call", RomStart + 4), I1("Call", RomStart + 2), I0("Return")>>)

\* A return with nothing on the stack
RomReturn == RomOf(<<I0("Return")>>)

\* Key waits with the delay timer running, then key skips
RomKey ==
    RomOf(<<ILit("LoadRegister", 0, 2), I1("LoadIntoDelayTimer", 0),
         I1("WaitForKeyPress", 3), I1("SkipIfKeyPressed", 3),
         I1("WaitForKeyPress", 15), I1("SkipIfKeyNotPressed", 15),
         ILit("LoadRegister", 4, 16), I1("SkipIfKeyPressed", 4)>>)

\* Nested subroutines: 0x208 calls 0x20A and falls into it, so its own Return is
\* the one at 0x20A, reached a second time
RomNest ==
    RomOf(<<I1("Call", RomStart + 8), I1("Call", RomStart + 10), I1("Call", RomStart + 8),
            I0("Return"), I1("Call", RomStart + 10), I0("Return")>>)

\* A subroutine at 0x204 that calls itself until V0 = 16, then sixteen returns
RomDeep ==
    RomOf(<<I1("Call", RomStart + 4)>>) \o <<0, 0>>
        \o RomOf(<<I2("AddNoCarry", 0, 1), ILit("SkipIfEqual", 0, 16),
                   I1("Call", RomStart + 4), I0("Return")>>)

\* A jump to the last word of memory, and to the odd address before it
RomLastWord == RomOf(<<I1("Jump", MemorySize - 2)>>)
RomLastOdd == RomOf(<<I1("Jump", MemorySize - 3)>>)

Roms ==
    {RomDraw(n) : n \in 0..15}
        \cup {RomDrawVF, RomSkipEdge, RomWrap, RomCall, RomReturn, RomKey, RomNest, RomDeep,
              RomLastWord, RomLastOdd}

\* Sets of pressed keys handed to step
KeyInputs == {{}, {0}, {5, 9}, {15}, {3, 7, 15}}

\* The keys are only read by the key-wait branch and by the two key skips
KeysRead(m) ==
    \/ m.waiting_for_key_press # <<>>
    \/ NextInstr(m).op \in {"SkipIfKeyPressed", "SkipIfKeyNotPressed"}
KeyChoices(m) == IF KeysRead(m) THEN KeyInputs ELSE {{}}

\* Clock ticks between two steps, and the clock value at which the run is cut off
StepTicks == 1
MaxTime == 80

InterpInit(roms) ==
    /\ mode = "interp"
    /\ instr = NoInstr /\ word = <<0, 0>> /\ phase = "input"
    /\ encRes = NoEnc /\ decRes = NoDec
    /\ rom \in roms
    /\ MachineIs(NewMachine(rom))
    /\ now = 0
    /\ last = NoLast
    /\ decTimes = <<>>
    /\ AsmIdle
    /\ MainIdle

\* One call of step(keys): dt ticks have passed since the last call returned
Step(keys, rnd, dt, skew) ==
    /\ mode = "interp"
    /\ panic = "None"
    /\ now + dt + skew <= MaxTime
    /\ \E m2 \in {step(Machine, keys, rnd, now + dt, skew)} :
        \E decremented \in {m2.last_timer_decrement # last_timer_decrement} :
           /\ MachineBecomes(m2)
           /\ now' = IF decremented THEN now + dt + skew ELSE now + dt
           /\ \E ins \in {NextInstr(Machine)} :
                 \E report \in PanicReports(m2, fetch(Machine).bytes) :
                    last' = [LastOf(Machine, m2, ins) EXCEPT !.report = report]
           /\ decTimes' = IF decremented THEN Append(decTimes, now + dt + skew) ELSE decTimes
    /\ UNCHANGED <<mode, codecVars, rom, asmVars, mainVars>>

Init == InterpInit(Roms)

Next ==
    \E keys \in KeyChoices(Machine) : \E rnd \in RandInputs(Machine) :
        Step(keys, rnd, StepTicks, 0)

Spec == Init /\ [][Next]_vars

\* Loads both timers, waits for a key, then overwrites the delay timer with 0
RomTimer ==
    RomOf(<<ILit("LoadRegister", 0, 3), I1("LoadIntoDelayTimer", 0),
         ILit("LoadRegister", 1, 1), I1("LoadIntoSoundTimer", 1),
         I1("WaitForKeyPress", 2),
         I1("LoadIntoDelayTimer", 3), I1("LoadFromDelayTimer", 4)>>)

\* Loads the delay timer and at once overwrites it with 0
RomTimerReset ==
    RomOf(<<ILit("LoadRegister", 0, 5), I1("LoadIntoDelayTimer", 0), I1("LoadIntoSoundTimer", 0),
         I1("LoadIntoDelayTimer", 1), I1("LoadIntoSoundTimer", 1)>>)

TimerKeys == {{}, {4}}

\* The host calls step at any pace: up to MaxElapsed ticks pass between two steps
\* and up to MaxSkew ticks between the two clock reads of decrement_timers
MaxElapsed == 4
MaxSkew == 1
TimerMaxTime == 12

TimerInit == InterpInit({RomTimer, RomTimerReset})

TimerNext ==
    \E keys \in TimerKeys : \E dt \in 0..MaxElapsed : \E skew \in 0..MaxSkew :
        /\ now + dt + skew <= TimerMaxTime
        /\ Step(keys, 0, dt, skew)

TimerSpec == TimerInit /\ [][TimerNext]_vars

(***************************************************************************)
(* The assembler's codegen (assembler/src/codegen.rs) on the AST of        *)
(* assembler/src/ast.rs.  A span is the index of the statement.            *)
(***************************************************************************)
\* OrAlias::Alias(name), and OrAlias::Concrete of a register or of a number
Alias(name) == [tag |-> "Alias", name |-> name, val |-> 0]
ConcreteReg(r) == [tag |-> "Register", name |-> "", val |-> r]
ConcreteNum(v) == [tag |-> "Number", name |-> "", val |-> v]
NoArg == [tag |-> "None", name |-> "", val |-> 0]

\* AliasableThing
RawData(v) == [tag |-> "RawData", val |-> v]
Register(r) == [tag |-> "Register", val |-> r]

\* PseudoInstruction
PI(op, a, b, c) == [op |-> op, a |-> a, b |-> b, c |-> c]

\* Stmt
AliasDefinition(name, thing) ==
    [kind |-> "AliasDefinition", name |-> name, thing |-> thing, data |-> <<>>, pi |-> PI("None", NoArg, NoArg, NoArg)]
RawDataDefinition(data) ==
    [kind |-> "RawDataDefinition", name |-> "", thing |-> RawData(0), data |-> data, pi |-> PI("None", NoArg, NoArg, NoArg)]
Label(name) ==
    [kind |-> "Label", name |-> name, thing |-> RawData(0), data |-> <<>>, pi |-> PI("None", NoArg, NoArg, NoArg)]
PseudoInstruction(pi) ==
    [kind |-> "PseudoInstruction", name |-> "", thing |-> RawData(0), data |-> <<>>, pi |-> pi]
Include(name) ==
    [kind |-> "Include", name |-> name, thing |-> RawData(0), data |-> <<>>, pi |-> PI("None", NoArg, NoArg, NoArg)]

\* CodegenError
CgErr(kind, name, a, b) ==
    [kind |-> kind, name |-> name, a |-> a, b |-> b, enc |-> "None", span |-> 0]
CgEncodingError(e) ==
    [kind |-> "EncodingError", name |-> "", a |-> e.val, b |-> 0, enc |-> e.err, span |-> 0]

MapInsertOnlyRegisters(map, name, thing) ==
    IF thing.tag = "Register"
    THEN [k \in (DOMAIN map) \cup {name} |-> IF k = name THEN thing ELSE map[k]]
    ELSE map

\* alias_map.insert(name, thing)
MapInsert(map, name, thing) ==
    [k \in (DOMAIN map) \cup {name} |-> IF k = name THEN thing ELSE map[k]]

RECURSIVE Pass1(_, _, _)
Pass1InstructionsOneByte(stmts, k, st) ==
    IF k > Len(stmts) THEN st
    ELSE LET stmt == stmts[k] IN
         CASE stmt.kind = "AliasDefinition" ->
                IF stmt.name \in DOMAIN st.map
                THEN [st EXCEPT !.err = [CgErr("AliasAlreadyDefined", stmt.name, 0, 0)
                                            EXCEPT !.span = k]]
                ELSE Pass1(stmts, k + 1,
                           [st EXCEPT !.map = MapInsert(st.map, stmt.name, stmt.thing)])
           [] stmt.kind = "RawDataDefinition" ->
                Pass1(stmts, k + 1, [st EXCEPT !.offset = st.offset + Len(stmt.data)])
           [] stmt.kind = "Label" ->
                IF stmt.name \in DOMAIN st.map
                THEN [st EXCEPT !.err = [CgErr("LabelAlreadyDefined", stmt.name, 0, 0)
                                            EXCEPT !.span = k]]
                ELSE Pass1(stmts, k + 1,
                           [st EXCEPT !.map = MapInsert(st.map, stmt.name, RawData(st.offset))])
           [] stmt.kind = "PseudoInstruction" ->
                Pass1(stmts, k + 1, [st EXCEPT !.offset = st.offset + 1])
           [] stmt.kind = "Include" -> Pass1(stmts, k + 1, st)

\* The first pass: offsets of the labels and the alias map
Pass1(stmts, k, st) ==
    IF k > Len(stmts) THEN st
    ELSE LET stmt == stmts[k] IN
         CASE stmt.kind = "AliasDefinition" ->
                IF stmt.name \in DOMAIN st.map
                THEN [st EXCEPT !.map = MapInsert(st.map, stmt.name, stmt.thing),
                                !.err = [CgErr("AliasAlreadyDefined", stmt.name, 0, 0)
                                            EXCEPT !.span = k]]
                ELSE Pass1(stmts, k + 1,
                           [st EXCEPT !.map = MapInsert(st.map, stmt.name, stmt.thing)])
           [] stmt.kind = "RawDataDefinition" ->
                Pass1(stmts, k + 1, [st EXCEPT !.offset = st.offset + Len(stmt.data)])
           [] stmt.kind = "Label" ->
                IF stmt.name \in DOMAIN st.map
                THEN [st EXCEPT !.map = MapInsert(st.map, stmt.name, RawData(st.offset)),
                                !.err = [CgErr("LabelAlreadyDefined", stmt.name, 0, 0)
                                            EXCEPT !.span = k]]
                ELSE Pass1(stmts, k + 1,
                           [st EXCEPT !.map = MapInsert(st.map, stmt.name, RawData(st.offset))])
           [] stmt.kind = "PseudoInstruction" ->
                Pass1(stmts, k + 1, [st EXCEPT !.offset = st.offset + 2])
           [] stmt.kind = "Include" ->
                Pass1(stmts, k + 1, [st EXCEPT !.had_error = TRUE,
                                               !.reports = Append(st.reports, <<k, "ERROR">>)])

ResRegAsByte(r) == [ok |-> TRUE, isReg |-> FALSE, val |-> r, err |-> [kind |-> "None", name |-> "", a |-> 0, b |-> 0, enc |-> "None", span |-> 0]]

\* Results of the resolve_* macros
ResReg(r) == [ok |-> TRUE, isReg |-> TRUE, val |-> r, err |-> NoCgError]
ResNum(v) == [ok |-> TRUE, isReg |-> FALSE, val |-> v, err |-> NoCgError]
ResErr(e) == [ok |-> FALSE, isReg |-> FALSE, val |-> 0, err |-> e]

ResolveAddrPastTarget(arg, map) ==
    IF arg.tag = "Alias"
    THEN IF arg.name \notin DOMAIN map THEN ResErr(CgErr("AliasNotDefined", arg.name, 0, 0))
         ELSE IF map[arg.name].tag = "RawData" THEN ResNum(map[arg.name].val + 2)
         ELSE ResErr(CgErr("AliasShouldBeNumber", arg.name, 0, 0))
    ELSE ResNum(arg.val)

\* resolve_addr!
resolve_addr(arg, map) ==
    IF arg.tag = "Alias"
    THEN IF arg.name \notin DOMAIN map THEN ResErr(CgErr("AliasNotDefined", arg.name, 0, 0))
         ELSE IF map[arg.name].tag = "RawData" THEN ResNum(map[arg.name].val)
         ELSE ResErr(CgErr("AliasShouldBeNumber", arg.name, 0, 0))
    ELSE ResNum(arg.val)

ResolveRegAcceptsNumbers(arg, map) ==
    IF arg.tag = "Alias"
    THEN IF arg.name \notin DOMAIN map THEN ResErr(CgErr("AliasNotDefined", arg.name, 0, 0))
         ELSE ResReg(map[arg.name].val % 16)
    ELSE ResReg(arg.val)

\* resolve_reg!
resolve_reg(arg, map) ==
    IF arg.tag = "Alias"
    THEN IF arg.name \notin DOMAIN map THEN ResErr(CgErr("AliasNotDefined", arg.name, 0, 0))
         ELSE IF map[arg.name].tag = "RawData"
         THEN ResErr(CgErr("AliasShouldBeRegister", arg.name, 0, 0))
         ELSE ResReg(map[arg.name].val)
    ELSE ResReg(arg.val)

ResolveRegOrByteTruncating(arg, map) ==
    IF arg.tag = "Alias"
    THEN IF arg.name \notin DOMAIN map THEN ResErr(CgErr("AliasNotDefined", arg.name, 0, 0))
         ELSE IF map[arg.name].tag = "RawData" THEN ResNum(map[arg.name].val % 256)
         ELSE ResReg(map[arg.name].val)
    ELSE IF arg.tag = "Register" THEN ResReg(arg.val)
    ELSE ResNum(arg.val)

\* resolve_reg_or_byte!
resolve_reg_or_byte(arg, map) ==
    IF arg.tag = "Alias"
    THEN IF arg.name \notin DOMAIN map THEN ResErr(CgErr("AliasNotDefined", arg.name, 0, 0))
         ELSE IF map[arg.name].tag = "RawData"
         THEN IF map[arg.name].val > 255
              THEN ResErr(CgErr("AliasedLiteralTooBig", arg.name, map[arg.name].val, 255))
              ELSE ResNum(map[arg.name].val)
         ELSE ResReg(map[arg.name].val)
    ELSE IF arg.tag = "Register" THEN ResReg(arg.val)
    ELSE ResNum(arg.val)

\* The match on the mask of rnd (limit 0xFF) and on the nibble of drw (limit 0xF)
resolve_number(arg, map, limit) ==
    IF arg.tag = "Alias"
    THEN IF arg.name \notin DOMAIN map THEN ResErr(CgErr("AliasNotDefined", arg.name, 0, 0))
         ELSE IF map[arg.name].tag = "RawData"
         THEN IF map[arg.name].val > limit
              THEN ResErr(CgErr("AliasedLiteralTooBig", arg.name, map[arg.name].val, limit))
              ELSE ResNum(map[arg.name].val)
         ELSE ResErr(CgErr("AliasShouldBeNumber", arg.name, 0, 0))
    ELSE ResNum(arg.val)

\* The outcome of lowering one pseudo-instruction: an Instruction, an early
\* return with a CodegenError, or the panic! of jmpp
LowOk(i) == [status |-> "ok", ins |-> i, err |-> NoCgError]
LowErr(e) == [status |-> "err", ins |-> NoInstr, err |-> e]
JmpPlusReturnsError == LowErr(CgErr("AliasShouldBeRegister", "", 0, 0))
LowPanic == [status |-> "panic", ins |-> NoInstr, err |-> NoCgError]

\* Operands are resolved left to right; the first failure returns its error,
\* otherwise the instruction i built from the resolved values is the result
Lower1(r, i) == IF r.ok THEN LowOk(i) ELSE LowErr(r.err)
Lower2(r1, r2, i) == IF r1.ok THEN Lower1(r2, i) ELSE LowErr(r1.err)
Lower3(r1, r2, r3, i) == IF r1.ok THEN Lower2(r2, r3, i) ELSE LowErr(r1.err)

\* The match on the pseudo-instruction
Lower(pi, map) ==
    LET addr == resolve_addr(pi.a, map)
        ra == resolve_reg(pi.a, map)
        rb == resolve_reg(pi.b, map)
        ob == resolve_reg_or_byte(pi.b, map)
    IN
    CASE pi.op = "Nop" -> LowOk(I0("Nop"))
      [] pi.op = "Cls" -> LowOk(I0("ClearScreen"))
      [] pi.op = "Ret" -> LowOk(I0("Return"))
      [] pi.op = "Jmp" -> Lower1(addr, I1("Jump", addr.val))
      [] pi.op = "JmpPlus" ->
            IF ra.ok /\ ra.val # 0 THEN LowPanic
            ELSE Lower2(ra, resolve_addr(pi.b, map), I1("JumpPlusV0", resolve_addr(pi.b, map).val))
      [] pi.op = "Call" -> Lower1(addr, I1("Call", addr.val))
      [] pi.op = "Se" ->
            Lower2(ra, ob, IF ob.isReg THEN IReg("SkipIfEqual", ra.val, ob.val)
                           ELSE ILit("SkipIfEqual", ra.val, ob.val))
      [] pi.op = "Sne" ->
            Lower2(ra, ob, IF ob.isReg THEN IReg("SkipIfNotEqual", ra.val, ob.val)
                           ELSE ILit("SkipIfNotEqual", ra.val, ob.val))
      [] pi.op = "Ld" ->
            Lower2(ra, ob, IF ob.isReg THEN IReg("LoadRegister", ra.val, ob.val)
                           ELSE ILit("LoadRegister", ra.val, ob.val))
      [] pi.op = "LdIndex" -> Lower1(addr, I1("LoadMemoryRegister", addr.val))
      [] pi.op = "LdFromK" -> Lower1(ra, I1("WaitForKeyPress", ra.val))
      [] pi.op = "LdFromDt" -> Lower1(ra, I1("LoadFromDelayTimer", ra.val))
      [] pi.op = "Add" ->
            Lower2(ra, ob, IF ob.isReg THEN I2("AddWithCarry", ra.val, ob.val)
                           ELSE I2("AddNoCarry", ra.val, ob.val))
      [] pi.op = "AddIndex" -> Lower1(ra, I1("AddToMemoryRegister", ra.val))
      [] pi.op = "Or" -> Lower2(ra, rb, I2("Or", ra.val, rb.val))
      [] pi.op = "And" -> Lower2(ra, rb, I2("And", ra.val, rb.val))
      [] pi.op = "Xor" -> Lower2(ra, rb, I2("Xor", ra.val, rb.val))
      [] pi.op = "Sub" -> Lower2(ra, rb, I2("Sub", ra.val, rb.val))
      [] pi.op = "Subn" -> Lower2(ra, rb, I2("SubN", ra.val, rb.val))
      [] pi.op = "Shr" -> Lower1(ra, I1("ShiftRight", ra.val))
      [] pi.op = "Shl" -> Lower1(ra, I1("ShiftLeft", ra.val))
      [] pi.op = "Rnd" ->
            Lower2(ra, resolve_number(pi.b, map, 255),
                   I2("LoadRandomWithMask", ra.val, resolve_number(pi.b, map, 255).val))
      [] pi.op = "Drw" ->
            Lower3(ra, rb, resolve_number(pi.c, map, 15),
                   I3("Draw", ra.val, rb.val, resolve_number(pi.c, map, 15).val))
      [] pi.op = "Skp" -> Lower1(ra, I1("SkipIfKeyPressed", ra.val))
      [] pi.op = "Sknp" -> Lower1(ra, I1("SkipIfKeyNotPressed", ra.val))
      [] pi.op = "Delay" -> Lower1(ra, I1("LoadIntoDelayTimer", ra.val))
      [] pi.op = "Sound" -> Lower1(ra, I1("LoadIntoSoundTimer", ra.val))
      [] pi.op = "Font" -> Lower1(ra, I1("LoadDigitAddress", ra.val))
      [] pi.op = "Bcd" -> Lower1(ra, I1("StoreBcdInMemory", ra.val))
      [] pi.op = "Stor" -> Lower1(ra, I1("StoreRegistersInMemory", ra.val))
      [] pi.op = "Rstr" -> Lower1(ra, I1("ReadRegistersFromMemory", ra.val))

\* The second pass: raw data is copied, instructions are lowered and encoded
RECURSIVE Pass2(_, _, _, _)
Pass2(stmts, k, map, st) ==
    IF k > Len(stmts) THEN st
    ELSE LET stmt == stmts[k] IN
         CASE stmt.kind = "RawDataDefinition" ->
                Pass2(stmts, k + 1, map, [st EXCEPT !.blob = st.blob \o stmt.data])
           [] stmt.kind = "PseudoInstruction" ->
                LET low == Lower(stmt.pi, map)
                    enc == encode(low.ins)
                IN  IF low.status = "panic"
                    THEN [st EXCEPT !.status = "panic", !.had_error = TRUE,
                                    !.reports = Append(st.reports, <<k, "ERROR">>)]
                    ELSE IF low.status = "err"
                    THEN [st EXCEPT !.status = "err", !.err = [low.err EXCEPT !.span = k]]
                    ELSE IF ~enc.ok
                    THEN [st EXCEPT !.status = "err",
                                    !.err = [CgEncodingError(enc) EXCEPT !.span = k]]
                    ELSE Pass2(stmts, k + 1, map,
                               [st EXCEPT !.blob = st.blob \o enc.bytes,
                                          !.lowered = Append(st.lowered,
                                              [offset |-> RomStart + Len(st.blob),
                                               ins |-> low.ins])])
           [] OTHER -> Pass2(stmts, k + 1, map, st)

CodegenPass2First(stmts) ==
    LET p1 == Pass1(stmts, 1, [offset |-> RomStart, map |-> <<>>, err |-> NoCgError,
                                had_error |-> had_error, reports |-> reports])
        p2 == Pass2(stmts, 1, p1.map,
                    [status |-> "ok", err |-> NoCgError, blob |-> <<>>, lowered |-> <<>>,
                     had_error |-> p1.had_error, reports |-> p1.reports])
    IN  IF p2.status = "ok" /\ p1.err.kind # "None"
        THEN [status |-> "err", err |-> p1.err, blob |-> <<>>, lowered |-> <<>>,
              map |-> p1.map, had_error |-> p1.had_error, reports |-> p1.reports]
        ELSE [status |-> p2.status, err |-> p2.err,
              blob |-> IF p2.status = "ok" THEN p2.blob ELSE <<>>,
              lowered |-> p2.lowered, map |-> p1.map,
              had_error |-> p2.had_error, reports |-> p2.reports]

\* codegen: what it returns (status, err, blob), what it leaves behind (had_error,
\* reports) and, for the record, the alias map and the instructions it encoded
codegen(stmts) ==
    LET p1 == Pass1(stmts, 1, [offset |-> RomStart, map |-> <<>>, err |-> NoCgError,
                                had_error |-> had_error, reports |-> reports])
        p2 == Pass2(stmts, 1, p1.map,
                    [status |-> "ok", err |-> NoCgError, blob |-> <<>>, lowered |-> <<>>,
                     had_error |-> p1.had_error, reports |-> p1.reports])
    IN  IF p1.err.kind # "None"
        THEN [status |-> "err", err |-> p1.err, blob |-> <<>>, lowered |-> <<>>,
              map |-> p1.map, had_error |-> p1.had_error, reports |-> p1.reports]
        ELSE [status |-> p2.status, err |-> p2.err,
              blob |-> IF p2.status = "ok" THEN p2.blob ELSE <<>>,
              lowered |-> p2.lowered, map |-> p1.map,
              had_error |-> p2.had_error, reports |-> p2.reports]

\* Statements every program may hold: definitions of the name "a", labels, raw
\* data, an include, and instructions that use the names
CorePool ==
    {AliasDefinition("a", RawData(5)), AliasDefinition("a", RawData(4660)),
     AliasDefinition("a", RawData(15)), AliasDefinition("a", RawData(16)),
     AliasDefinition("a", RawData(255)), AliasDefinition("a", RawData(256)),
     AliasDefinition("a", RawData(4095)), AliasDefinition("a", RawData(4096)),
     AliasDefinition("a", Register(0)), AliasDefinition("a", Register(3)),
     Label("a"), Label("l"),
     RawDataDefinition(<<1, 2, 3>>), Include("f"),
     PseudoInstruction(PI("Nop", NoArg, NoArg, NoArg)),
     PseudoInstruction(PI("Jmp", Alias("l"), NoArg, NoArg)),
     PseudoInstruction(PI("Ld", ConcreteReg(1), Alias("a"), NoArg)),
     PseudoInstruction(PI("JmpPlus", Alias("a"), Alias("l"), NoArg)),
     PseudoInstruction(PI("Rnd", ConcreteReg(2), Alias("a"), NoArg)),
     PseudoInstruction(PI("Drw", ConcreteReg(0), ConcreteReg(1), Alias("a")))}

\* Every mnemonic with operands as the parser delivers them: registers V0..VF,
\* nibbles up to 0xF, bytes up to 0xFF, addresses up to 0xFFF
MnemonicPool ==
    {PseudoInstruction(PI(op, NoArg, NoArg, NoArg)) : op \in {"Cls", "Ret"}}
    \cup {PseudoInstruction(PI(op, ConcreteNum(addr), NoArg, NoArg)) :
            op \in {"Jmp", "Call", "LdIndex"}, addr \in {512, 4095}}
    \cup {PseudoInstruction(PI(op, Alias("a"), NoArg, NoArg)) : op \in {"Jmp", "Call", "LdIndex"}}
    \cup {PseudoInstruction(PI("JmpPlus", ConcreteReg(0), Alias("a"), NoArg))}
    \cup {PseudoInstruction(PI("JmpPlus", ConcreteReg(r), ConcreteNum(768), NoArg)) : r \in {0, 1}}
    \cup {PseudoInstruction(PI(op, ConcreteReg(4), b, NoArg)) :
            op \in {"Se", "Sne", "Ld", "Add"},
            b \in {ConcreteReg(15), ConcreteNum(255), Alias("a")}}
    \cup {PseudoInstruction(PI(op, ConcreteReg(6), b, NoArg)) :
            op \in {"Or", "And", "Xor", "Sub", "Subn"}, b \in {ConcreteReg(7), Alias("a")}}
    \cup {PseudoInstruction(PI(op, a, NoArg, NoArg)) :
            op \in {"LdFromK", "LdFromDt", "AddIndex", "Shr", "Shl", "Skp", "Sknp",
                    "Delay", "Sound", "Font", "Bcd", "Stor", "Rstr"},
            a \in {ConcreteReg(9), Alias("a")}}
    \cup {PseudoInstruction(PI("Rnd", ConcreteReg(10), ConcreteNum(170), NoArg)),
          PseudoInstruction(PI("Drw", ConcreteReg(11), ConcreteReg(12), ConcreteNum(15)))}

\* Statement lists: up to MaxStmts core statements, and each mnemonic alone,
\* before and after each core statement
MaxStmts == 2
RECURSIVE CoreSeqs(_)
CoreSeqs(n) ==
    IF n = 0 THEN {<<>>}
    ELSE CoreSeqs(n - 1) \cup {Append(q, c) : q \in CoreSeqs(n - 1), c \in CorePool}
\* References to the label "l" before and after it, with a statement x in front
LabelPrograms ==
    LET jmp == PseudoInstruction(PI("Jmp", Alias("l"), NoArg, NoArg)) IN
    UNION {{<<x, Label("l"), jmp>>, <<x, jmp, Label("l")>>, <<jmp, x, Label("l")>>} :
            x \in CorePool}
\* Two definitions (of "a", or of "a" and the label "l") around one statement that
\* uses the names
DefinitionPrograms ==
    LET defs == {c \in CorePool : c.kind \in {"AliasDefinition", "Label"}}
        uses == {c \in CorePool \cup MnemonicPool :
                    /\ c.kind = "PseudoInstruction"
                    /\ \E arg \in {c.pi.a, c.pi.b, c.pi.c} : arg.tag = "Alias"}
    IN  UNION {{<<d1, d2, u>>, <<d1, u, d2>>, <<u, d1, d2>>} :
                d1 \in defs, d2 \in defs, u \in uses}
\* A label behind so much raw data that its address is 0xFFF or 0x1000, used as
\* an address
FarLabelPrograms ==
    {<<RawDataDefinition([k \in 1..n |-> 1]), Label("l"), PseudoInstruction(pi)>> :
        n \in {4095 - RomStart, 4096 - RomStart},
        pi \in {PI("Jmp", Alias("l"), NoArg, NoArg), PI("Call", Alias("l"), NoArg, NoArg),
                PI("LdIndex", Alias("l"), NoArg, NoArg),
                PI("JmpPlus", ConcreteReg(0), Alias("l"), NoArg)}}

Programs ==
    CoreSeqs(MaxStmts)
        \cup LabelPrograms
        \cup FarLabelPrograms
        \cup DefinitionPrograms
        \cup {<<m>> : m \in MnemonicPool}
        \cup {<<c, m>> : c \in CorePool, m \in MnemonicPool}
        \cup {<<m, c>> : c \in CorePool, m \in MnemonicPool}

\* Steps the interpreter is run for on an assembled ROM
AsmMaxSteps == 3

AsmInit ==
    /\ mode = "asm"
    /\ instr = NoInstr /\ word = <<0, 0>> /\ phase = "input"
    /\ encRes = NoEnc /\ decRes = NoDec
    /\ MachineIdle
    /\ statements \in Programs
    /\ cgStatus = "none" /\ cgError = NoCgError
    /\ blob = <<>> /\ lowered = <<>> /\ alias_map = <<>>
    /\ had_error = FALSE /\ reports = <<>>
    /\ MainIdle

\* main: codegen(statements)
Codegen ==
    /\ mode = "asm"
    /\ cgStatus = "none"
    /\ \E r \in {codegen(statements)} :
          /\ cgStatus' = r.status
          /\ cgError' = r.err
          /\ blob' = r.blob
          /\ lowered' = r.lowered
          /\ alias_map' = r.map
          /\ had_error' = r.had_error
          /\ reports' = r.reports
    /\ UNCHANGED <<mode, codecVars, machVars, envVars, statements, mainVars>>

\* The ROM that main wrote is given to Chip8Interpreter::new
LoadRom ==
    /\ mode = "asm"
    /\ cgStatus = "ok"
    /\ mode' = "interp"
    /\ rom' = blob
    /\ \E m \in {NewMachine(blob)} : MachineBecomes(m)
    /\ UNCHANGED <<codecVars, now, last, decTimes, asmVars, mainVars>>

RunRom ==
    /\ mode = "interp"
    /\ now + StepTicks <= AsmMaxSteps * StepTicks
    /\ \E keys \in KeyChoices(Machine) : \E rnd \in RandInputs(Machine) :
          Step(keys, rnd, StepTicks, 0)

AsmNext == Codegen \/ LoadRom \/ RunRom

AsmSpec == AsmInit /\ [][AsmNext]_vars

(***************************************************************************)
(* Properties of the interpreter                                            *)
(***************************************************************************)

\* C6 (as stated; refuted): after every completed step the program counter is
\* below 4096 and the stack pointer is at most 16.
C6_PCAndSPInRange ==
    (mode = "interp" /\ panic = "None") =>
        (program_counter < MemorySize /\ stack_pointer <= StackSize)

\* The step that the interpreter takes from the current state on the given keys
\* (no random number is drawn by the steps this is used for)
StepOn(keys) == Step(keys, 0, StepTicks, 0)

\* While the wait flag is set a step fetches and executes nothing; with no key
\* pressed nothing but the timers moves, with a key pressed Vx gets the lowest
\* pressed index and the flag is cleared
C7_WaitBranch(keys) ==
    LET x == waiting_for_key_press[1] IN
    /\ last'.branch = "wait"
    /\ panic' = "None"
    /\ UNCHANGED <<program_counter, memory_register, memory, stack, stack_pointer, display>>
    /\ keys = {} => UNCHANGED <<v_registers, waiting_for_key_press>>
    /\ keys # {} =>
          /\ \E k \in keys :
                /\ \A j \in keys : k <= j
                /\ v_registers' = [v_registers EXCEPT ![x] = k]
          /\ waiting_for_key_press' = <<>>

\* C7: key-wait gating.  Executing WaitForKeyPress(x) sets the wait flag to x and
\* the step completes; while the flag is set a step fetches and executes no
\* instruction, leaves PC, V, I, memory, stack, SP and display alone when no key
\* is pressed, and otherwise writes the lowest pressed key index to Vx and clears
\* the flag with PC unchanged; the step after that fetches the instruction that
\* follows the WaitForKeyPress.
C7_KeyWaitGating ==
    [][ mode = "interp" =>
          /\ (last'.branch = "exec" /\ last'.ins.op = "WaitForKeyPress") =>
                /\ waiting_for_key_press' = <<last'.ins.x>>
                /\ panic' = "None"
                /\ program_counter' = (last'.addr + 2) % MemorySize
          /\ (waiting_for_key_press # <<>>) =>
                /\ last.ins.op = "WaitForKeyPress"
                /\ program_counter = (last.addr + 2) % MemorySize
                /\ \A keys \in KeyInputs : StepOn(keys) => C7_WaitBranch(keys)
          /\ (last.branch = "wait" /\ waiting_for_key_press = <<>>) =>
                /\ last'.branch \in {"exec", "panic"}
                /\ last'.addr = (last.addr + 2) % MemorySize
      ]_vars

\* Keys 5 and 9 were held during the wait for V3, V3 got 5, and the next step
\* fetched the instruction after the wait
C7_Witness ==
    /\ mode = "interp"
    /\ last.branch = "exec"
    /\ last.ins = I1("SkipIfKeyPressed", 3)
    /\ last.addr = RomStart + 6
    /\ v_registers[3] = 5

\* The on-screen pixels under set sprite bits of Draw(x, y, n) in the current
\* state: row r of the sprite is memory[I + r], its most significant bit leftmost
SpriteBit(r, c) == (MemRead(memory, memory_register + r) \div Pow2(7 - c)) % 2 = 1
SpriteCells(x, y, n) ==
    LET x0 == v_registers[x] % DisplayWidth
        y0 == v_registers[y] % DisplayHeight
    IN  {<<y0 + r, x0 + c>> : <<r, c>> \in
            {rc \in (0..(n - 1)) \X (0..7) :
                /\ SpriteBit(rc[1], rc[2])
                /\ y0 + rc[1] < DisplayHeight
                /\ x0 + rc[2] < DisplayWidth}}

\* The step just taken executed a Draw to completion
DrawStep == last'.branch = "exec" /\ last'.ins.op = "Draw"

\* C8: Draw(x, y, n), for every n in 0..15, starts at (Vx mod 64, Vy mod 32),
\* XORs the sprite rows memory[I + r] (most significant bit leftmost) onto the
\* display, and leaves VF = 1 iff an on-screen pixel was White before and had a
\* set sprite bit, else VF = 0; with n = 0 no pixel changes and VF = 0.
C8_DrawXorAndCollision ==
    [][ (mode = "interp" /\ DrawStep) =>
          LET cells == SpriteCells(last'.ins.x, last'.ins.y, last'.ins.n) IN
          /\ display' = (display \ cells) \cup (cells \ display)
          /\ v_registers' =
                [v_registers EXCEPT ![15] = IF cells \cap display # {} THEN 1 ELSE 0]
          /\ last'.ins.n = 0 => (display' = display /\ v_registers'[15] = 0)
          /\ UNCHANGED <<memory, memory_register>>
      ]_vars

\* A second 15-row draw collided with the first one, and a pixel was erased
C8_Witness ==
    /\ mode = "interp"
    /\ last.branch = "exec"
    /\ last.ins = I3("Draw", 0, 1, 15)
    /\ last.addr = RomStart + 20
    /\ v_registers[15] = 1
    /\ display # {}

\* Columns x0..min(x0+7, 63) and rows y0..min(y0+n-1, 31) of Draw(x, y, n)
DrawWindow(x, y, n) ==
    LET x0 == v_registers[x] % DisplayWidth
        y0 == v_registers[y] % DisplayHeight
        xmax == IF x0 + 7 < DisplayWidth - 1 THEN x0 + 7 ELSE DisplayWidth - 1
        ymax == IF y0 + n - 1 < DisplayHeight - 1 THEN y0 + n - 1 ELSE DisplayHeight - 1
    IN  (y0..ymax) \X (x0..xmax)

CeilDiv(a, b) == (a + b - 1) \div b

\* The timer values a step holds just before it calls decrement_timers
DelayBeforeDecrement ==
    IF last'.branch = "exec" /\ last'.ins.op = "LoadIntoDelayTimer"
    THEN v_registers[last'.ins.x] ELSE delay_timer
SoundBeforeDecrement ==
    IF last'.branch = "exec" /\ last'.ins.op = "LoadIntoSoundTimer"
    THEN v_registers[last'.ins.x] ELSE sound_timer

\* C10 (as stated; refuted): each timer falls by at most 1 in any step.
C10_FallsAtMostOnePerStep ==
    [][ mode = "interp" =>
          /\ delay_timer' >= delay_timer - 1
          /\ sound_timer' >= sound_timer - 1
      ]_vars

\* C10 (amended): timers are decremented only at the end of a step, in either
\* branch, and only when at least one timer period has passed since the previous
\* decrement; a decrement lowers DT and ST together by 1, saturating at 0, and
\* resets the timestamp.  A step that does not load a timer lowers it by at most
\* 1, and any k decrements span at least k - 1 periods, so an interval of length
\* d holds at most ceil(d / period) + 1 of them.
C10_TimerDiscipline ==
    [][ (mode = "interp" /\ panic' = "None") =>
          LET decremented == decTimes' # decTimes IN
          /\ ~decremented =>
                /\ now' - last_timer_decrement < TimerPeriod
                /\ last_timer_decrement' = last_timer_decrement
                /\ delay_timer' = DelayBeforeDecrement
                /\ sound_timer' = SoundBeforeDecrement
          /\ decremented =>
                /\ now' - last_timer_decrement >= TimerPeriod
                /\ last_timer_decrement' = now'
                /\ decTimes' = Append(decTimes, now')
                /\ delay_timer' = IF DelayBeforeDecrement = 0 THEN 0 ELSE DelayBeforeDecrement - 1
                /\ sound_timer' = IF SoundBeforeDecrement = 0 THEN 0 ELSE SoundBeforeDecrement - 1
          /\ ~(last'.branch = "exec" /\ last'.ins.op = "LoadIntoDelayTimer") =>
                delay_timer' >= delay_timer - 1
          /\ ~(last'.branch = "exec" /\ last'.ins.op = "LoadIntoSoundTimer") =>
                sound_timer' >= sound_timer - 1
          /\ \A i \in DOMAIN decTimes' : \A j \in DOMAIN decTimes' :
                i < j => j - i + 1 <= CeilDiv(decTimes'[j] - decTimes'[i], TimerPeriod) + 1
      ]_vars

\* Four decrements one period apart, the last ones in the key-wait branch, have
\* taken DT from 3 and ST from 1 to 0, where both stay
C10_Witness ==
    /\ mode = "interp"
    /\ rom = RomTimer
    /\ last.branch = "wait"
    /\ Len(decTimes) = 4
    /\ decTimes[4] - decTimes[1] = 3 * TimerPeriod
    /\ delay_timer = 0 /\ sound_timer = 0

\* The two ROM bytes at address a
BlobWord(a) == <<blob[a - RomStart + 1], blob[a - RomStart + 2]>>

\* C3 (as stated; refuted): each two-byte word codegen emits for a
\* pseudo-instruction, nop included, is accepted by decode and decodes to the
\* instruction codegen lowered it to, and the interpreter never stops with
\* UnrecognisedBytecode on a word that was assembled from an instruction.
C3_EmittedWordsDecode ==
    cgStatus = "ok" =>
        /\ \A k \in DOMAIN lowered :
              decode(BlobWord(lowered[k].offset)) = DecOk(lowered[k].ins)
        /\ ~(/\ panic = "UnrecognisedBytecode"
             /\ \E k \in DOMAIN lowered : lowered[k].offset = last.addr)

\* The address after the instruction fetched at a
After(a) == (a + 2) % MemorySize

\* C11: Call(addr) stores the already advanced PC at stack[SP], increments SP and
\* jumps to addr; Return decrements SP and jumps to stack[SP].  Calls and returns
\* are LIFO: SP is the number of outstanding calls, stack[0..SP-1] holds the
\* addresses after them in call order, and each Return resumes at the instruction
\* after its matching Call.  No other instruction touches the stack or SP.
C11_CallReturnLifo ==
    [][ (mode = "interp" /\ panic' = "None") =>
          LET calls == last.calls
              executed == IF last'.branch = "exec" THEN last'.ins.op ELSE "None"
          IN
          /\ executed = "Call" =>
                /\ stack_pointer < StackSize
                /\ stack' = [stack EXCEPT ![stack_pointer] = After(last'.addr)]
                /\ stack_pointer' = stack_pointer + 1
                /\ program_counter' = last'.ins.x
          /\ executed = "Return" =>
                /\ calls # <<>>
                /\ stack_pointer' = stack_pointer - 1
                /\ program_counter' = stack[stack_pointer']
                /\ program_counter' = After(calls[Len(calls)])
                /\ stack' = stack
          /\ executed \notin {"Call", "Return"} => UNCHANGED <<stack, stack_pointer>>
          /\ stack_pointer' = Len(last'.calls)
          /\ \A k \in DOMAIN last'.calls : stack'[k - 1] = After(last'.calls[k])
      ]_vars

\* The self-calling subroutine went sixteen calls deep and the last of its
\* sixteen returns resumed after the first call
C11_Witness ==
    /\ mode = "interp"
    /\ rom = RomDeep
    /\ last.branch = "exec" /\ last.ins.op = "Return"
    /\ v_registers[0] = 16
    /\ stack_pointer = 0
    /\ program_counter = RomStart + 2

\* The printable ASCII characters in the order of their codes 32..126 (the grave
\* accent, code 96, by its name)
Ascii ==
    <<
      " ", "!", "\"", "#", "$", "%", "&", "'", "(", ")", "*", "+", ",", "-", ".", "/",
      "0", "1", "2", "3", "4", "5", "6", "7", "8", "9", ":", ";", "<", "=", ">", "?",
      "@", "A", "B", "C", "D", "E", "F", "G", "H", "I", "J", "K", "L", "M", "N", "O",
      "P", "Q", "R", "S", "T", "U", "V", "W", "X", "Y", "Z", "[", "\\", "]", "^", "_",
      "grave", "a", "b", "c", "d", "e", "f", "g", "h", "i", "j", "k", "l", "m", "n", "o",
      "p", "q", "r", "s", "t", "u", "v", "w", "x", "y", "z", "{", "|", "}", "~"
    >>

\* The byte of an ASCII character
CharCode(c) == IF c = "\n" THEN 10 ELSE IF c = "\t" THEN 9 ELSE 31 + (CHOOSE k \in DOMAIN Ascii : Ascii[k] = c)

(***************************************************************************)
(* The assembler's parser (assembler/src/parser).  A token is its variant,  *)
(* the name it carries (an identifier, a mnemonic, a special register), its *)
(* number (a literal, a general register) and, for a string literal, its    *)
(* text both as a name and as its characters.  The span of a token is its   *)
(* position in the token list.                                              *)
(***************************************************************************)
Token(t, name, val, text) == [t |-> t, name |-> name, val |-> val, text |-> text]

\* str::as_bytes
as_bytes(text) == [k \in DOMAIN text |-> CharCode(text[k])]

\* Parser::advance: the cursor after it; the token it returns is toks[advance(toks, c)]
advance(toks, c) == IF c < Len(toks) THEN c + 1 ELSE c

\* Parser::synchronize, after its first advance: skip to a token that can start a
\* statement
RECURSIVE SkipToStatement(_, _)
SkipToStatement(toks, c) ==
    IF c >= Len(toks) THEN c
    ELSE IF toks[c + 1].t \in {"Identifier", "InstructionName", "Define", "DefineBytes",
                               "DefineWords", "Text", "Include"}
    THEN c
    ELSE SkipToStatement(toks, advance(toks, c))

SynchronizeInPlace(toks, c) == c

\* Parser::synchronize
synchronize(toks, c) == SkipToStatement(toks, advance(toks, c))

\* A ParseResult: Ok(value) with the cursor after it, or Err(ParseError) with the
\* position of the token that caused it
ParseOk(value, c) == [ok |-> TRUE, val |-> value, current |-> c, token |-> 0]
ParseErr(c, token) == [ok |-> FALSE, val |-> NoArg, current |-> c, token |-> token]

\* parse_arg_general_register
parse_arg_general_register(toks, c) ==
    LET c1 == advance(toks, c)
        token == toks[c1]
    IN  IF token.t = "Identifier" THEN ParseOk(Alias(token.name), c1)
        ELSE IF token.t = "GeneralRegisterName" THEN ParseOk(ConcreteReg(token.val), c1)
        ELSE ParseErr(c1, c1)

ParseArgNumberAnyWidth(toks, c, limit) ==
    LET c1 == advance(toks, c)
        token == toks[c1]
    IN  IF token.t = "Identifier" THEN ParseOk(Alias(token.name), c1)
        ELSE IF token.t = "NumericLiteral" THEN ParseOk(ConcreteNum(token.val), c1)
        ELSE ParseErr(c1, c1)

\* parse_arg_nibble, parse_arg_byte and parse_arg_addr, which differ in the
\* largest literal they accept (15, 255, 0xFFF)
parse_arg_number(toks, c, limit) ==
    LET c1 == advance(toks, c)
        token == toks[c1]
    IN  IF token.t = "Identifier" THEN ParseOk(Alias(token.name), c1)
        ELSE IF token.t = "NumericLiteral" /\ token.val <= limit
        THEN ParseOk(ConcreteNum(token.val), c1)
        ELSE ParseErr(c1, c1)

\* reg_or_byte!: a register, or after stepping back one token, a byte
reg_or_byte(toks, c) ==
    LET r == parse_arg_general_register(toks, c)
    IN  IF r.ok THEN r ELSE parse_arg_number(toks, r.current - 1, 255)

\* The pseudo-instruction of up to three operand results parsed left to right, or
\* the first error among them
Operands1(op, r1) ==
    IF r1.ok THEN ParseOk(PseudoInstruction(PI(op, r1.val, NoArg, NoArg)), r1.current) ELSE r1
Operands2(op, r1, r2) ==
    IF ~r1.ok THEN r1
    ELSE IF r2.ok THEN ParseOk(PseudoInstruction(PI(op, r1.val, r2.val, NoArg)), r2.current)
    ELSE r2
Operands3(op, r1, r2, r3) ==
    IF ~r1.ok THEN r1
    ELSE IF ~r2.ok THEN r2
    ELSE IF r3.ok THEN ParseOk(PseudoInstruction(PI(op, r1.val, r2.val, r3.val)), r3.current)
    ELSE r3

\* The token at the cursor is the special register name
PeekIsSpecial(toks, c, name) ==
    c < Len(toks) /\ toks[c + 1].t = "SpecialRegisterName" /\ toks[c + 1].name = name

\* parse_load
parse_load(toks, c) ==
    IF PeekIsSpecial(toks, c, "I")
    THEN Operands1("LdIndex", parse_arg_number(toks, advance(toks, c), 4095))
    ELSE LET r1 == parse_arg_general_register(toks, c) IN
         IF ~r1.ok THEN r1
         ELSE IF PeekIsSpecial(toks, r1.current, "K")
         THEN ParseOk(PseudoInstruction(PI("LdFromK", r1.val, NoArg, NoArg)),
                      advance(toks, r1.current))
         ELSE IF PeekIsSpecial(toks, r1.current, "Dt")
         THEN ParseOk(PseudoInstruction(PI("LdFromDt", r1.val, NoArg, NoArg)),
                      advance(toks, r1.current))
         ELSE Operands2("Ld", r1, reg_or_byte(toks, r1.current))

\* parse_instruction
parse_instruction(toks, c) ==
    LET c1 == advance(toks, c)
        name == toks[c1].name
        r1 == parse_arg_general_register(toks, c1)
        r2 == parse_arg_general_register(toks, r1.current)
    IN  CASE name \in {"Nop", "Cls", "Ret"} ->
               ParseOk(PseudoInstruction(PI(name, NoArg, NoArg, NoArg)), c1)
          [] name \in {"Jmp", "Call"} -> Operands1(name, parse_arg_number(toks, c1, 4095))
          [] name = "Jmpp" -> Operands2("JmpPlus", r1, parse_arg_number(toks, r1.current, 4095))
          [] name \in {"Se", "Sne"} -> Operands2(name, r1, reg_or_byte(toks, r1.current))
          [] name = "Ld" -> parse_load(toks, c1)
          [] name = "Add" ->
               IF PeekIsSpecial(toks, c1, "I")
               THEN Operands1("AddIndex", parse_arg_general_register(toks, advance(toks, c1)))
               ELSE Operands2("Add", r1, reg_or_byte(toks, r1.current))
          [] name \in {"Or", "And", "Xor", "Sub", "Subn"} -> Operands2(name, r1, r2)
          [] name = "Rnd" -> Operands2("Rnd", r1, parse_arg_number(toks, r1.current, 255))
          [] name = "Drw" -> Operands3("Drw", r1, r2, parse_arg_number(toks, r2.current, 15))
          [] OTHER -> Operands1(name, r1)

\* parse_alias_definition
parse_alias_definition(toks, c) ==
    LET c2 == advance(toks, advance(toks, c))
        c3 == advance(toks, c2)
    IN  IF toks[c2].t # "Identifier" THEN ParseErr(c2, c2)
        ELSE IF toks[c3].t = "NumericLiteral"
        THEN ParseOk(AliasDefinition(toks[c2].name, RawData(toks[c3].val)), c3)
        ELSE IF toks[c3].t = "GeneralRegisterName"
        THEN ParseOk(AliasDefinition(toks[c2].name, Register(toks[c3].val)), c3)
        ELSE ParseErr(c3, c3)

\* The loops of db (width 1) and dw (width 2) over the numeric literals that follow
RECURSIVE DefineData(_, _, _, _)
DefineData(toks, c, width, bytes) ==
    IF c < Len(toks) /\ toks[c + 1].t = "NumericLiteral"
    THEN IF width = 1 /\ toks[c + 1].val > 255 THEN ParseErr(c + 1, c + 1)
         ELSE DefineData(toks, c + 1, width,
                         bytes \o (IF width = 1 THEN <<toks[c + 1].val>>
                                   ELSE to_be_bytes(toks[c + 1].val)))
    ELSE ParseOk(RawDataDefinition(bytes), c)

\* parse_raw_data_definition
parse_raw_data_definition(toks, c) ==
    LET c1 == advance(toks, c)
        c2 == advance(toks, c1)
    IN  IF toks[c1].t = "DefineBytes" THEN DefineData(toks, c1, 1, <<>>)
        ELSE IF toks[c1].t = "DefineWords" THEN DefineData(toks, c1, 2, <<>>)
        ELSE IF toks[c2].t = "StringLiteral"
        THEN ParseOk(RawDataDefinition(as_bytes(toks[c2].text)), c2)
        ELSE ParseErr(c2, c2)

\* parse_include
parse_include(toks, c) ==
    LET c2 == advance(toks, advance(toks, c))
    IN  IF toks[c2].t = "StringLiteral" THEN ParseOk(Include(toks[c2].name), c2)
        ELSE ParseErr(c2, c2)

\* parse_label
parse_label(toks, c) ==
    LET c1 == advance(toks, c)
        c2 == advance(toks, c1)
    IN  IF toks[c2].t = "Colon" THEN ParseOk(Label(toks[c1].name), c2)
        ELSE ParseErr(c2, c2)

\* parse_statement: the statement parsed (an Option) and the cursor after it, or
\* after an error the token reported and the cursor synchronize leaves
parse_statement(toks, c) ==
    LET t == toks[c + 1].t
        result == CASE t = "Define" -> parse_alias_definition(toks, c)
                    [] t \in {"DefineBytes", "DefineWords", "Text"} ->
                         parse_raw_data_definition(toks, c)
                    [] t = "Identifier" -> parse_label(toks, c)
                    [] t = "InstructionName" -> parse_instruction(toks, c)
                    [] t = "Include" -> parse_include(toks, c)
                    [] OTHER -> ParseErr(c, c + 1)
    IN  IF result.ok
        THEN [stmt |-> <<result.val>>, current |-> result.current, token |-> 0]
        ELSE [stmt |-> <<>>, current |-> synchronize(toks, result.current),
              token |-> result.token]

\* The tokens the token lists are made of
TokenPool ==
    {Token("Colon", "", 0, <<>>), Token("Identifier", "a", 0, <<>>),
     Token("InstructionName", "Cls", 0, <<>>), Token("InstructionName", "Jmp", 0, <<>>),
     Token("InstructionName", "Jmpp", 0, <<>>), Token("InstructionName", "Ld", 0, <<>>),
     Token("InstructionName", "Add", 0, <<>>), Token("InstructionName", "Drw", 0, <<>>),
     Token("GeneralRegisterName", "", 1, <<>>), Token("SpecialRegisterName", "I", 0, <<>>),
     Token("SpecialRegisterName", "K", 0, <<>>),
     Token("Define", "", 0, <<>>), Token("DefineBytes", "", 0, <<>>),
     Token("DefineWords", "", 0, <<>>), Token("Text", "", 0, <<>>),
     Token("Include", "", 0, <<>>), Token("StringLiteral", "hi", 0, <<"h", "i">>),
     Token("NumericLiteral", "", 5, <<>>), Token("NumericLiteral", "", 300, <<>>),
     Token("NumericLiteral", "", 4660, <<>>)}

\* Token lists: every list of up to MaxTokens tokens, followed by one of the tails
\* (operands that complete an instruction, well-formed statements, stray tokens)
MaxTokens == 2
RECURSIVE TokenSeqs(_)
TokenSeqs(n) ==
    IF n = 0 THEN {<<>>}
    ELSE TokenSeqs(n - 1) \cup {Append(q, t) : q \in TokenSeqs(n - 1), t \in TokenPool}
TokenLists ==
    LET cls == Token("InstructionName", "Cls", 0, <<>>)
        a == Token("Identifier", "a", 0, <<>>)
        colon == Token("Colon", "", 0, <<>>)
        v1 == Token("GeneralRegisterName", "", 1, <<>>)
        five == Token("NumericLiteral", "", 5, <<>>)
        big == Token("NumericLiteral", "", 300, <<>>)
        hi == Token("StringLiteral", "hi", 0, <<"h", "i">>)
        tails == {<<>>, <<cls>>, <<cls, cls>>, <<a, colon>>, <<colon, cls>>, <<five, cls>>,
                  <<v1>>, <<v1, five>>, <<v1, v1, five>>, <<v1, big, cls>>, <<hi, cls>>,
                  <<a, cls>>}
    IN  {q \o p : q \in TokenSeqs(MaxTokens), p \in tails}

ParseInit ==
    /\ mode = "parse"
    /\ instr = NoInstr /\ word = <<0, 0>> /\ phase = "input"
    /\ encRes = NoEnc /\ decRes = NoDec
    /\ MachineIdle
    /\ AsmIdle
    /\ source = <<>>
    /\ tokens \in TokenLists
    /\ current = 0
    /\ stage = "parse" /\ exit_status = "none" /\ output_file = <<>>

\* parse_program: one turn of its loop, a call of parse_statement
ParseStatement ==
    /\ stage = "parse"
    /\ current < Len(tokens)
    /\ \E r \in {parse_statement(tokens, current)} :
          /\ current' = r.current
          /\ statements' = statements \o r.stmt
          /\ had_error' = (had_error \/ r.token # 0)
          /\ reports' = IF r.token # 0 THEN Append(reports, <<r.token, "ERROR">>) ELSE reports
    /\ UNCHANGED <<mode, codecVars, machVars, envVars, cgStatus, cgError, blob, lowered,
                   alias_map, source, tokens, stage, exit_status, output_file>>

ParseSpec == ParseInit /\ [][ParseStatement]_vars

(***************************************************************************)
(* The assembler's scanner (assembler/src/scanner.rs) and main.  The source *)
(* is a sequence of ASCII characters, so a byte index is a character index. *)
(***************************************************************************)
\* The &str of a slice as a string, for the words the sources are made of ("?"
\* stands for every other slice)
SliceName(w) ==
    CASE w = <<"a">> -> "a"
      [] w = <<"l">> -> "l"
      [] w = <<"h", "i">> -> "hi"
      [] w = <<"j", "m", "p", "p">> -> "jmpp"
      [] OTHER -> "?"

\* scan_identifier_or_keyword: the token of a word (the match on word_slice); a word
\* outside the table is an Identifier
Keyword(w) ==
    CASE w = <<"n", "o", "p">> -> Token("InstructionName", "Nop", 0, <<>>)
      [] w = <<"c", "l", "s">> -> Token("InstructionName", "Cls", 0, <<>>)
      [] w = <<"r", "e", "t">> -> Token("InstructionName", "Ret", 0, <<>>)
      [] w = <<"j", "m", "p">> -> Token("InstructionName", "Jmp", 0, <<>>)
      [] w = <<"j", "p">> -> Token("InstructionName", "Jmp", 0, <<>>)
      [] w = <<"c", "a", "l", "l">> -> Token("InstructionName", "Call", 0, <<>>)
      [] w = <<"s", "e">> -> Token("InstructionName", "Se", 0, <<>>)
      [] w = <<"s", "n", "e">> -> Token("InstructionName", "Sne", 0, <<>>)
      [] w = <<"l", "d">> -> Token("InstructionName", "Ld", 0, <<>>)
      [] w = <<"a", "d", "d">> -> Token("InstructionName", "Add", 0, <<>>)
      [] w = <<"o", "r">> -> Token("InstructionName", "Or", 0, <<>>)
      [] w = <<"a", "n", "d">> -> Token("InstructionName", "And", 0, <<>>)
      [] w = <<"x", "o", "r">> -> Token("InstructionName", "Xor", 0, <<>>)
      [] w = <<"s", "u", "b">> -> Token("InstructionName", "Sub", 0, <<>>)
      [] w = <<"s", "u", "b", "n">> -> Token("InstructionName", "Subn", 0, <<>>)
      [] w = <<"s", "h", "r">> -> Token("InstructionName", "Shr", 0, <<>>)
      [] w = <<"s", "h", "l">> -> Token("InstructionName", "Shl", 0, <<>>)
      [] w = <<"r", "n", "d">> -> Token("InstructionName", "Rnd", 0, <<>>)
      [] w = <<"d", "r", "w">> -> Token("InstructionName", "Drw", 0, <<>>)
      [] w = <<"s", "k", "p">> -> Token("InstructionName", "Skp", 0, <<>>)
      [] w = <<"s", "k", "n", "p">> -> Token("InstructionName", "Sknp", 0, <<>>)
      [] w = <<"d", "e", "l", "a", "y">> -> Token("InstructionName", "Delay", 0, <<>>)
      [] w = <<"s", "o", "u", "n", "d">> -> Token("InstructionName", "Sound", 0, <<>>)
      [] w = <<"f", "o", "n", "t">> -> Token("InstructionName", "Font", 0, <<>>)
      [] w = <<"h", "e", "x">> -> Token("InstructionName", "Font", 0, <<>>)
      [] w = <<"b", "c", "d">> -> Token("InstructionName", "Bcd", 0, <<>>)
      [] w = <<"s", "t", "o", "r">> -> Token("InstructionName", "Stor", 0, <<>>)
      [] w = <<"r", "s", "t", "r">> -> Token("InstructionName", "Rstr", 0, <<>>)
      [] w = <<"v", "0">> -> Token("GeneralRegisterName", "", 0, <<>>)
      [] w = <<"v", "1">> -> Token("GeneralRegisterName", "", 1, <<>>)
      [] w = <<"v", "2">> -> Token("GeneralRegisterName", "", 2, <<>>)
      [] w = <<"v", "3">> -> Token("GeneralRegisterName", "", 3, <<>>)
      [] w = <<"v", "4">> -> Token("GeneralRegisterName", "", 4, <<>>)
      [] w = <<"v", "5">> -> Token("GeneralRegisterName", "", 5, <<>>)
      [] w = <<"v", "6">> -> Token("GeneralRegisterName", "", 6, <<>>)
      [] w = <<"v", "7">> -> Token("GeneralRegisterName", "", 7, <<>>)
      [] w = <<"v", "8">> -> Token("GeneralRegisterName", "", 8, <<>>)
      [] w = <<"v", "9">> -> Token("GeneralRegisterName", "", 9, <<>>)
      [] w = <<"v", "a">> -> Token("GeneralRegisterName", "", 10, <<>>)
      [] w = <<"v", "b">> -> Token("GeneralRegisterName", "", 11, <<>>)
      [] w = <<"v", "c">> -> Token("GeneralRegisterName", "", 12, <<>>)
      [] w = <<"v", "d">> -> Token("GeneralRegisterName", "", 13, <<>>)
      [] w = <<"v", "e">> -> Token("GeneralRegisterName", "", 14, <<>>)
      [] w = <<"v", "f">> -> Token("GeneralRegisterName", "", 15, <<>>)
      [] w = <<"i">> -> Token("SpecialRegisterName", "I", 0, <<>>)
      [] w = <<"d", "t">> -> Token("SpecialRegisterName", "Dt", 0, <<>>)
      [] w = <<"k">> -> Token("SpecialRegisterName", "K", 0, <<>>)
      [] w = <<"d", "e", "f", "i", "n", "e">> -> Token("Define", "", 0, <<>>)
      [] w = <<"d", "b">> -> Token("DefineBytes", "", 0, <<>>)
      [] w = <<"d", "w">> -> Token("DefineWords", "", 0, <<>>)
      [] w = <<"t", "e", "x", "t">> -> Token("Text", "", 0, <<>>)
      [] w = <<"i", "n", "c", "l", "u", "d", "e">> -> Token("Include", "", 0, <<>>)
      [] OTHER -> Token("Identifier", SliceName(w), 0, <<>>)

\* char::is_ascii_digit, is_ascii_alphabetic, is_whitespace and is_ident_char
Digits == {c \in {Ascii[k] : k \in DOMAIN Ascii} : CharCode(c) \in 48..57}
Letters == {c \in {Ascii[k] : k \in DOMAIN Ascii} : CharCode(c) \in (65..90) \cup (97..122)}
Whitespace == {" ", "\n", "\t"}
IdentChars == Letters \cup Digits \cup {"_"}

\* while the current character is one of cs: advance
RECURSIVE ScanWhile(_, _, _)
ScanWhile(src, c, cs) ==
    IF c < Len(src) /\ src[c + 1] \in cs THEN ScanWhile(src, c + 1, cs) ELSE c

\* str::parse::<u16> and u16::from_str_radix: the number the digits spell in the
\* radix, or -1 for Err (a character that is no digit of the radix, or a value
\* above 65535)
RECURSIVE from_str_radix(_, _)
from_str_radix(digits, radix) ==
    IF digits = <<>> THEN 0
    ELSE LET c == CharCode(digits[Len(digits)])
             d == IF c \in 48..57 THEN c - 48 ELSE IF c \in 97..102 THEN c - 87 ELSE radix
             rest == from_str_radix(SubSeq(digits, 1, Len(digits) - 1), radix)
         IN  IF d >= radix \/ rest = -1 \/ rest * radix + d > 65535 THEN -1
             ELSE rest * radix + d

\* What scan_token leaves: the cursor, the token it added (if any), whether it
\* reported an error, whether Scanner::advance panicked at the end of the source
Scanned(c, toks, error, panicked) ==
    [current |-> c, tokens |-> toks, error |-> error, panic |-> panicked]

\* add_token(NumericLiteral(num)), or the report of "larger than 16 bits"
ScannedNumber(c, num) ==
    IF num = -1 THEN Scanned(c, <<>>, TRUE, FALSE)
    ELSE Scanned(c, <<Token("NumericLiteral", "", num, <<>>)>>, FALSE, FALSE)

\* scan_binary_number (radix 2) and scan_hex_number (radix 16): they advance once
\* more after the % or # that scan_token consumed, then over the digits
scan_radix_number(src, start, radix) ==
    LET c2 == start + 2
        c3 == ScanWhile(src, c2, {d \in Digits \cup {"a", "b", "c", "d", "e", "f"} :
                                    from_str_radix(<<d>>, radix) # -1})
    IN  IF start + 1 >= Len(src) THEN Scanned(start + 1, <<>>, FALSE, TRUE)
        ELSE ScannedNumber(c3, from_str_radix(SubSeq(src, start + 2, c3), radix))

\* scan_string
scan_string(src, start) ==
    LET c2 == ScanWhile(src, start + 1, ({Ascii[k] : k \in DOMAIN Ascii} \cup Whitespace) \ {"\""})
        text == SubSeq(src, start + 2, c2)
    IN  IF c2 >= Len(src) THEN Scanned(c2, <<>>, TRUE, FALSE)
        ELSE Scanned(c2 + 1, <<Token("StringLiteral", SliceName(text), 0, text)>>, FALSE, FALSE)

ScanIdentifierOrKeywordWithJmpp(src, start) ==
    LET wordEnd == ScanWhile(src, start + 1, IdentChars)
        word_slice == SubSeq(src, start + 1, wordEnd)
    IN  Scanned(wordEnd,
                <<IF word_slice = <<"j", "m", "p", "p">>
                  THEN Token("InstructionName", "Jmpp", 0, <<>>)
                  ELSE Keyword(word_slice)>>, FALSE, FALSE)

\* scan_identifier_or_keyword: the word is every identifier character from the
\* start of the lexeme on, the token its entry in the keyword table
scan_identifier_or_keyword(src, start) ==
    LET wordEnd == ScanWhile(src, start + 1, IdentChars)
        word_slice == SubSeq(src, start + 1, wordEnd)
    IN  Scanned(wordEnd, <<Keyword(word_slice)>>, FALSE, FALSE)

\* scan_token, with the lexeme starting after the first `start` characters
scan_token(src, start) ==
    LET c == src[start + 1]
        c1 == start + 1
        numberEnd == ScanWhile(src, c1, Digits)
    IN  CASE c = ";" ->
               Scanned(ScanWhile(src, c1, {Ascii[k] : k \in DOMAIN Ascii} \cup {"\t"}),
                       <<>>, FALSE, FALSE)
          [] c = ":" -> Scanned(c1, <<Token("Colon", "", 0, <<>>)>>, FALSE, FALSE)
          [] c = "," -> Scanned(c1, <<>>, FALSE, FALSE)
          [] c = "\"" -> scan_string(src, start)
          [] c \in Digits -> ScannedNumber(numberEnd, from_str_radix(SubSeq(src, c1, numberEnd), 10))
          [] c = "%" -> scan_radix_number(src, start, 2)
          [] c = "#" -> scan_radix_number(src, start, 16)
          [] c \in Whitespace -> Scanned(c1, <<>>, FALSE, FALSE)
          [] c \in Letters \cup {"_"} -> scan_identifier_or_keyword(src, start)
          [] OTHER -> Scanned(c1, <<>>, TRUE, FALSE)

\* scan_tokens: scan_token until the end of the source; st holds the tokens, the
\* had-error flag and the reports so far
RECURSIVE ScanFrom(_, _, _)
ScanFrom(src, c, st) ==
    IF c >= Len(src) THEN st
    ELSE LET r == scan_token(src, c)
             st1 == [tokens |-> st.tokens \o r.tokens,
                     had_error |-> st.had_error \/ r.error,
                     reports |-> IF r.error THEN Append(st.reports, <<c + 1, "ERROR">>)
                                 ELSE st.reports,
                     panic |-> r.panic]
         IN  IF r.panic THEN st1 ELSE ScanFrom(src, r.current, st1)

scan_tokens(src) ==
    ScanFrom(src, 0, [tokens |-> <<>>, had_error |-> had_error, reports |-> reports,
                      panic |-> FALSE])

\* main: input.replace("\t", "    ").to_ascii_lowercase()
RECURSIVE lowercase_input(_)
lowercase_input(input) ==
    IF input = <<>> THEN <<>>
    ELSE LET c == input[1] IN
         (IF c = "\t" THEN <<" ", " ", " ", " ">>
          ELSE IF CharCode(c) \in 65..90 THEN <<Ascii[CharCode(c) + 1]>>
          ELSE <<c>>) \o lowercase_input(Tail(input))

\* The lines the source texts are made of
SourceLines ==
    {<<"c", "l", "s">>,
     <<"C", "L", "S">>,
     <<"a", ":">>,
     <<"j", "m", "p", " ", "a">>,
     <<"j", "m", "p", "p", " ", "v", "0", ",", " ", "a">>,
     <<"l", "d", " ", "v", "1", ",", " ", "5">>,
     <<"\t", "l", "d", " ", "i", " ", "a">>,
     <<"d", "e", "f", "i", "n", "e", " ", "a", " ", "#", "1", "f">>,
     <<"d", "b", " ", "1", " ", "%", "1", "0">>,
     <<"t", "e", "x", "t", " ", "\"", "h", "i", "\"">>,
     <<"t", "e", "x", "t", " ", "\"", "H", "i", "\"">>,
     <<"d", "w", " ", "#", "1", "2", "3", "4", " ", "#", "A", "B", "C", "D">>,
     <<"d", "b", " ", "3", "0", "0", " ", "5">>,
     <<";", " ", "h", "i">>,
     <<"@">>,
     <<"a">>,
     <<"5", " ", "c", "l", "s">>,
     <<"7", "0", "0", "0", "0">>,
     <<"\"", "h", "i">>,
     <<"%">>,
     <<"#">>,
     <<"l", ":", " ", "j", "m", "p", " ", "l">>,
     <<"j", "m", "p", " ", "#", "f", "f", "f">>,
     <<"j", "m", "p", " ", "#", "1", "0", "0", "0">>,
     <<"l", "d", " ", "v", "1", ",", " ", "2", "5", "6">>,
     <<"r", "n", "d", " ", "v", "1", ",", " ", "2", "5", "5">>,
     <<"d", "r", "w", " ", "v", "0", ",", " ", "v", "1", ",", " ", "1", "5">>,
     <<"d", "r", "w", " ", "v", "0", ",", " ", "v", "1", ",", " ", "1", "6">>,
     <<"d", "e", "f", "i", "n", "e", " ", "a", " ", "#", "1", "0", "0", "0">>}

\* Source texts: up to MaxLines lines, one per line
MaxLines == 2
RECURSIVE Sources(_)
Sources(n) ==
    IF n = 0 THEN {<<>>}
    ELSE Sources(n - 1) \cup {text \o line \o <<"\n">> : text \in Sources(n - 1), line \in SourceLines}
                        \cup {text \o line : text \in Sources(n - 1), line \in SourceLines}

MainInit ==
    /\ mode = "main"
    /\ instr = NoInstr /\ word = <<0, 0>> /\ phase = "input"
    /\ encRes = NoEnc /\ decRes = NoDec
    /\ MachineIdle
    /\ AsmIdle
    /\ source \in Sources(MaxLines)
    /\ tokens = <<>> /\ current = 0
    /\ stage = "scan" /\ exit_status = "none" /\ output_file = <<>>

\* main: Scanner::scan_tokens and the check of HAD_ERROR after it
ScanTokens ==
    /\ stage = "scan"
    /\ \E r \in {scan_tokens(lowercase_input(source))} :
          /\ tokens' = r.tokens
          /\ had_error' = r.had_error
          /\ reports' = r.reports
          /\ stage' = IF r.panic \/ r.had_error THEN "done" ELSE "parse"
          /\ exit_status' = IF r.panic THEN "panic" ELSE IF r.had_error THEN "err" ELSE "none"
    /\ UNCHANGED <<mode, codecVars, machVars, envVars, statements, cgStatus, cgError, blob,
                   lowered, alias_map, source, current, output_file>>

\* main: codegen(statements) once Parser::parse has returned, and the write of the
\* ROM when it succeeded
CodegenAndWrite ==
    /\ mode = "main"
    /\ stage = "parse"
    /\ current >= Len(tokens)
    /\ \E r \in {codegen(statements)} :
          /\ cgStatus' = r.status
          /\ cgError' = r.err
          /\ blob' = r.blob
          /\ lowered' = r.lowered
          /\ alias_map' = r.map
          /\ had_error' = r.had_error
          /\ reports' = r.reports
          /\ output_file' = IF r.status = "ok" THEN <<r.blob>> ELSE output_file
          /\ exit_status' = r.status
    /\ stage' = "done"
    /\ UNCHANGED <<mode, codecVars, machVars, envVars, statements, source, tokens, current>>

MainNext == ScanTokens \/ ParseStatement \/ CodegenAndWrite

MainSpec == MainInit /\ [][MainNext]_vars

\* The ROM bytes a statement stands for: its raw data, two per instruction, none
\* for definitions, labels and includes
StmtBytes(stmt) ==
    CASE stmt.kind = "RawDataDefinition" -> Len(stmt.data)
      [] stmt.kind = "PseudoInstruction" -> 2
      [] OTHER -> 0

\* The ROM bytes of the statements before the k-th
RECURSIVE BytesBefore(_)
BytesBefore(k) == IF k <= 1 THEN 0 ELSE BytesBefore(k - 1) + StmtBytes(statements[k - 1])

\* The number of instructions among the statements before the k-th
RECURSIVE InstrsBefore(_)
InstrsBefore(k) ==
    IF k <= 1 THEN 0
    ELSE InstrsBefore(k - 1) + (IF statements[k - 1].kind = "PseudoInstruction" THEN 1 ELSE 0)

Pass1Completed ==
    /\ cgStatus # "none"
    /\ cgError.kind \notin {"AliasAlreadyDefined", "LabelAlreadyDefined"}

DefinedName(stmt) ==
    IF stmt.kind \in {"AliasDefinition", "Label"} THEN stmt.name ELSE ""

\* The positions of the statements that define a name an earlier statement defined
SecondDefinitions ==
    {j \in DOMAIN statements :
        /\ DefinedName(statements[j]) # ""
        /\ \E i \in 1..(j - 1) : DefinedName(statements[i]) = DefinedName(statements[j])}

\* C14: aliases and labels share one namespace: when a name is defined twice codegen
\* fails at the first such second definition, with AliasAlreadyDefined when that
\* statement is an alias definition and LabelAlreadyDefined when it is a label, and
\* returns no ROM.
C14_DoubleDefinitionDetected ==
    (cgStatus # "none" /\ SecondDefinitions # {}) =>
        LET j == CHOOSE j \in SecondDefinitions : \A k \in SecondDefinitions : j <= k IN
        /\ cgStatus = "err"
        /\ cgError.kind = IF statements[j].kind = "AliasDefinition"
                          THEN "AliasAlreadyDefined" ELSE "LabelAlreadyDefined"
        /\ cgError.name = statements[j].name
        /\ cgError.span = j
        /\ blob = <<>>

\* A label, an instruction, then an alias of the label's name
C14_Witness ==
    /\ cgStatus = "err"
    /\ statements = <<Label("a"), PseudoInstruction(PI("Ld", ConcreteReg(1), Alias("a"), NoArg)),
                      AliasDefinition("a", Register(0))>>
    /\ cgError.kind = "AliasAlreadyDefined"
    /\ cgError.span = 3

\* The register the base operand of a jmpp resolves to under the alias map
\* (-1 when it resolves to none)
BaseRegister(arg) ==
    IF arg.tag # "Alias" THEN arg.val
    ELSE IF arg.name \in DOMAIN alias_map /\ alias_map[arg.name].tag = "Register"
    THEN alias_map[arg.name].val
    ELSE -1

\* C15: a jmpp is lowered to Bnnn only when its base register, concrete or alias,
\* resolves to V0; when pass 2 arrives at a jmpp whose base resolves to another
\* register, codegen reports the error at the statement's span and aborts, with no
\* ROM and no CodegenError, whatever the address operand is (resolvable or not).
C15_JmpPlusOnlyV0 ==
    Pass1Completed =>
        \A k \in DOMAIN statements :
            (statements[k].kind = "PseudoInstruction" /\ statements[k].pi.op = "JmpPlus") =>
                LET base == BaseRegister(statements[k].pi.a)
                    n == InstrsBefore(k) + 1
                IN  /\ cgStatus = "ok" =>
                          /\ base = 0
                          /\ lowered[n].ins.op = "JumpPlusV0"
                          /\ BlobWord(lowered[n].offset)
                                = <<11 * 16 + (lowered[n].ins.x \div 256), lowered[n].ins.x % 256>>
                    /\ (cgStatus # "ok" /\ Len(lowered) = n - 1 /\ base > 0) =>
                          /\ cgStatus = "panic"
                          /\ cgError = NoCgError
                          /\ blob = <<>>
                          /\ had_error
                          /\ reports # <<>> /\ reports[Len(reports)] = <<k, "ERROR">>
                    /\ (cgStatus = "panic" /\ Len(lowered) = n - 1) => base > 0

\* jmpp a, l with a bound to V3 and l bound to nothing: the abort, not AliasNotDefined
C15_Witness ==
    /\ cgStatus = "panic"
    /\ statements = <<AliasDefinition("a", Register(3)),
                      PseudoInstruction(PI("JmpPlus", Alias("a"), Alias("l"), NoArg))>>
    /\ reports = <<<<2, "ERROR">>>>

\* What each operand of a mnemonic is used as: a register, an address, a register
\* or a byte, a byte (the mask of rnd), a nibble (the height of drw)
OperandRoles(op) ==
    CASE op \in {"Jmp", "Call", "LdIndex"} -> <<"addr", "none", "none">>
      [] op = "JmpPlus" -> <<"reg", "addr", "none">>
      [] op \in {"Se", "Sne", "Ld", "Add"} -> <<"reg", "regbyte", "none">>
      [] op \in {"Or", "And", "Xor", "Sub", "Subn"} -> <<"reg", "reg", "none">>
      [] op = "Rnd" -> <<"reg", "byte", "none">>
      [] op = "Drw" -> <<"reg", "reg", "nibble">>
      [] op \in {"Nop", "Cls", "Ret"} -> <<"none", "none", "none">>
      [] OTHER -> <<"reg", "none", "none">>

\* The error an operand used in a role calls for under the alias map (kind "None"
\* when it calls for none)
OperandOffence(arg, role) ==
    IF arg.tag # "Alias" \/ role = "none" THEN NoCgError
    ELSE IF arg.name \notin DOMAIN alias_map THEN CgErr("AliasNotDefined", arg.name, 0, 0)
    ELSE LET thing == alias_map[arg.name] IN
         IF role = "reg" /\ thing.tag = "RawData"
         THEN CgErr("AliasShouldBeRegister", arg.name, 0, 0)
         ELSE IF role \in {"addr", "byte", "nibble"} /\ thing.tag = "Register"
         THEN CgErr("AliasShouldBeNumber", arg.name, 0, 0)
         ELSE IF role \in {"regbyte", "byte"} /\ thing.tag = "RawData" /\ thing.val > 255
         THEN CgErr("AliasedLiteralTooBig", arg.name, thing.val, 255)
         ELSE IF role = "nibble" /\ thing.tag = "RawData" /\ thing.val > 15
         THEN CgErr("AliasedLiteralTooBig", arg.name, thing.val, 15)
         ELSE NoCgError

\* The error the k-th statement calls for: that of its leftmost offending operand;
\* none when a jmpp's base is a register other than V0, which aborts before the
\* address is looked at
StmtOffence(k) ==
    LET pi == statements[k].pi
        roles == OperandRoles(pi.op)
        oa == OperandOffence(pi.a, roles[1])
        ob == OperandOffence(pi.b, roles[2])
        oc == OperandOffence(pi.c, roles[3])
    IN  IF statements[k].kind # "PseudoInstruction" THEN NoCgError
        ELSE IF oa.kind # "None" THEN oa
        ELSE IF pi.op = "JmpPlus" /\ BaseRegister(pi.a) > 0 THEN NoCgError
        ELSE IF ob.kind # "None" THEN ob
        ELSE oc

\* Pass 2 arrived at the k-th statement
Pass2Reached(k) ==
    /\ Pass1Completed
    /\ cgStatus = "ok" \/ Len(lowered) >= InstrsBefore(k)

\* codegen failed at the k-th statement with the error e and returned no ROM
FailedAtWith(k, e) ==
    /\ cgStatus = "err"
    /\ cgError = [e EXCEPT !.span = k]
    /\ blob = <<>>
    /\ Len(lowered) = InstrsBefore(k)

\* C16: when pass 2 arrives at an instruction whose leftmost offending operand is an
\* alias bound to raw data where a register is wanted, an alias bound to a register
\* where an address, a mask or a nibble is wanted, or an alias with no binding,
\* codegen fails there with AliasShouldBeRegister, AliasShouldBeNumber or
\* AliasNotDefined of that name, and returns no ROM; and it fails with these errors
\* in no other case.
C16_AliasKindChecked ==
    LET kinds == {"AliasShouldBeRegister", "AliasShouldBeNumber", "AliasNotDefined"} IN
    /\ \A k \in DOMAIN statements :
          (Pass2Reached(k) /\ StmtOffence(k).kind \in kinds) => FailedAtWith(k, StmtOffence(k))
    /\ (cgStatus = "err" /\ cgError.kind \in kinds) =>
          /\ cgError.span \in DOMAIN statements
          /\ StmtOffence(cgError.span) = [cgError EXCEPT !.span = 0]
          /\ blob = <<>>

\* call a with a bound to V3: AliasShouldBeNumber("a")
C16_Witness ==
    /\ cgStatus = "err"
    /\ statements = <<AliasDefinition("a", Register(3)),
                      PseudoInstruction(PI("Call", Alias("a"), NoArg, NoArg))>>
    /\ cgError = [CgErr("AliasShouldBeNumber", "a", 0, 0) EXCEPT !.span = 2]
    /\ blob = <<>>

\* C17: an alias used as the second operand of se, sne, ld or add or as the mask of
\* rnd whose value v exceeds 0xFF fails with AliasedLiteralTooBig(n, v, 0xFF), one
\* used as the nibble of drw whose value exceeds 0xF fails with
\* AliasedLiteralTooBig(n, v, 0xF), and a value within the bound is the value of
\* the operand in the emitted instruction.
C17_AliasedLiteralBounded ==
    /\ \A k \in DOMAIN statements :
          (Pass2Reached(k) /\ StmtOffence(k).kind = "AliasedLiteralTooBig")
              => FailedAtWith(k, StmtOffence(k))
    /\ cgStatus = "ok" =>
          \A k \in DOMAIN statements :
              LET pi == statements[k].pi
                  roles == OperandRoles(pi.op)
                  n == InstrsBefore(k) + 1
              IN  statements[k].kind = "PseudoInstruction" =>
                      /\ (/\ roles[2] \in {"regbyte", "byte"}
                          /\ pi.b.tag = "Alias"
                          /\ alias_map[pi.b.name].tag = "RawData")
                            => /\ alias_map[pi.b.name].val <= 255
                               /\ lowered[n].ins.y = alias_map[pi.b.name].val
                               /\ BlobWord(lowered[n].offset)[2] = alias_map[pi.b.name].val
                      /\ (roles[3] = "nibble" /\ pi.c.tag = "Alias")
                            => /\ alias_map[pi.c.name].val <= 15
                               /\ lowered[n].ins.n = alias_map[pi.c.name].val
                               /\ BlobWord(lowered[n].offset)[2] % 16 = alias_map[pi.c.name].val

\* drw V0, V1, a with a = 16: too big for a nibble though it fits a byte
C17_Witness ==
    /\ cgStatus = "err"
    /\ statements = <<AliasDefinition("a", RawData(16)),
                      PseudoInstruction(PI("Drw", ConcreteReg(0), ConcreteReg(1), Alias("a")))>>
    /\ cgError = [CgErr("AliasedLiteralTooBig", "a", 16, 15) EXCEPT !.span = 2]

\* C18: for se, sne, ld and add the second operand decides the opcode: a register
\* (concrete, or an alias bound to one) gives 5xy0, 9xy0, 8xy0, 8xy4; a byte
\* (concrete, or an alias bound to raw data of at most 0xFF) gives 3xkk, 4xkk,
\* 6xkk, 7xkk.
C18_FormBySecondOperand ==
    cgStatus = "ok" =>
        \A k \in DOMAIN statements :
            (statements[k].kind = "PseudoInstruction"
                /\ statements[k].pi.op \in {"Se", "Sne", "Ld", "Add"}) =>
                LET pi == statements[k].pi
                    x == BaseRegister(pi.a)
                    isReg == \/ pi.b.tag = "Register"
                             \/ pi.b.tag = "Alias" /\ alias_map[pi.b.name].tag = "Register"
                    v == IF pi.b.tag = "Alias" THEN alias_map[pi.b.name].val ELSE pi.b.val
                    regForm == [Se |-> <<5, 0>>, Sne |-> <<9, 0>>, Ld |-> <<8, 0>>, Add |-> <<8, 4>>]
                    byteForm == [Se |-> 3, Sne |-> 4, Ld |-> 6, Add |-> 7]
                IN  BlobWord(RomStart + BytesBefore(k)) =
                        IF isReg
                        THEN <<regForm[pi.op][1] * 16 + x, v * 16 + regForm[pi.op][2]>>
                        ELSE <<byteForm[pi.op] * 16 + x, v>>

\* add V4, a with a bound to V3 is 8434; with a bound to 255 it would be 74FF
C18_Witness ==
    /\ cgStatus = "ok"
    /\ statements = <<AliasDefinition("a", Register(3)),
                      PseudoInstruction(PI("Add", ConcreteReg(4), Alias("a"), NoArg))>>
    /\ blob = <<132, 52>>

\* The tokens that can begin a statement
StatementStarts ==
    {"Identifier", "InstructionName", "Define", "DefineBytes", "DefineWords", "Text", "Include"}

\* C19 (as stated; refuted): a call of parse_statement that ends in a parse error
\* reports it and sets the had-error flag, adds no statement, and leaves the cursor
\* in front of the first token after the offending one that can begin a statement
\* (or at the end when there is none): none of the tokens it skipped after the
\* offending token can begin a statement.
C19_RecoverySkipsNoStatement ==
    [][ (stage = "parse" /\ Len(reports') > Len(reports)) =>
            LET offending == reports'[Len(reports')][1] IN
            /\ had_error'
            /\ reports'[Len(reports')][2] = "ERROR"
            /\ statements' = statements
            /\ current' >= offending
            /\ current' < Len(tokens) => tokens[current' + 1].t \in StatementStarts
            /\ \A j \in (offending + 1)..current' : tokens[j].t \notin StatementStarts
      ]_vars

\* C20 (as stated; refuted): main stops between its stages when the had-error
\* flag is set: a scan that sets the flag ends main with a non-zero exit before
\* any statement is parsed, and once parsing has set the flag codegen does not run;
\* in both cases no ROM file is written and the exit is non-zero.
C20_DriverShortCircuits ==
    [][ mode = "main" =>
            /\ (stage = "scan" /\ had_error') =>
                  /\ stage' = "done"
                  /\ exit_status' \in {"err", "panic"}
                  /\ statements' = <<>> /\ cgStatus' = "none" /\ output_file' = <<>>
            /\ (stage = "parse" /\ had_error) =>
                  /\ cgStatus' = "none"
                  /\ output_file' = <<>>
                  /\ stage' = "done" => exit_status' \in {"err", "panic"}
      ]_vars

\* C21 (as stated; refuted): scanner errors are not fatal: whatever the source
\* text, the scan step does not abort; it ends at the end of the source with the
\* token list, the had-error flag telling whether an error was reported.
C21_ScannerNeverAborts ==
    [][ (mode = "main" /\ stage = "scan") =>
            /\ exit_status' # "panic"
            /\ had_error' <=> (Len(reports') > 0)
            /\ had_error' <=> (exit_status' = "err")
      ]_vars

\* The values of the numeric literals that follow the first c tokens
RECURSIVE NumRun(_, _)
NumRun(toks, c) ==
    IF c < Len(toks) /\ toks[c + 1].t = "NumericLiteral"
    THEN <<toks[c + 1].val>> \o NumRun(toks, c + 1)
    ELSE <<>>

\* Each value as two bytes, high byte first
RECURSIVE WordsBytes(_)
WordsBytes(nums) ==
    IF nums = <<>> THEN <<>>
    ELSE <<Head(nums) \div 256, Head(nums) % 256>> \o WordsBytes(Tail(nums))

\* The texts between successive pairs of double quotes of a source text
RECURSIVE QuotedTexts(_)
QuotedTexts(src) ==
    LET quotes == {k \in DOMAIN src : src[k] = "\""}
        open == CHOOSE k \in quotes : \A j \in quotes : k <= j
        later == {k \in quotes : k > open}
        close == CHOOSE k \in later : \A j \in later : k <= j
    IN  IF quotes = {} \/ later = {} THEN <<>>
        ELSE <<SubSeq(src, open + 1, close - 1)>> \o QuotedTexts(SubSeq(src, close + 1, Len(src)))

\* The number of string literals among the first c tokens
StringsBefore(toks, c) == Cardinality({k \in 1..c : toks[k].t = "StringLiteral"})

\* C22 (as stated; refuted): db emits each numeric literal as one byte and is a
\* parse error when a literal exceeds 255; dw emits each literal as two bytes,
\* high byte first; text emits exactly the bytes of its string literal as written
\* in the source, with no terminator; and the bytes of every raw data statement
\* appear verbatim in the ROM that is written.
C22_RawDataEmission ==
    [][ (mode = "main" /\ stage = "parse") =>
            /\ (current < Len(tokens) /\ current' # current) =>
                  LET t == tokens[current + 1].t
                      nums == NumRun(tokens, current + 1)
                  IN  /\ t = "DefineBytes" =>
                            IF \A k \in DOMAIN nums : nums[k] <= 255
                            THEN statements' = Append(statements, RawDataDefinition(nums))
                            ELSE statements' = statements /\ Len(reports') = Len(reports) + 1
                      /\ t = "DefineWords" =>
                            statements' = Append(statements, RawDataDefinition(WordsBytes(nums)))
                      /\ (t = "Text" /\ current + 1 < Len(tokens)
                                     /\ tokens[current + 2].t = "StringLiteral") =>
                            statements' = Append(statements, RawDataDefinition(
                                as_bytes(QuotedTexts(source)[StringsBefore(tokens, current + 1) + 1])))
            /\ cgStatus' = "ok" =>
                  /\ output_file' = <<blob'>>
                  /\ \A k \in DOMAIN statements :
                        statements[k].kind = "RawDataDefinition" =>
                            SubSeq(blob', BytesBefore(k) + 1, BytesBefore(k + 1)) = statements[k].data
      ]_vars

(***************************************************************************)
(* The interpreter on ROMs that put arbitrary bytes into registers with    *)
(* LoadRandomWithMask and then execute one arithmetic or memory            *)
(* instruction.                                                             *)
(***************************************************************************)
\* Vx any byte, I = i, then StoreBcdInMemory(x)
RomBcd(x, i) ==
    RomOf(<<I2("LoadRandomWithMask", x, 255), I1("LoadMemoryRegister", i),
            I1("StoreBcdInMemory", x)>>)

\* ROMs by size: none, one byte, an odd number of bytes with zeros among them, the
\* largest that fits above 0x200 (ClearScreen repeated) and one byte more
RomOfSize(n) == [k \in 1..n |-> IF k % 2 = 1 THEN 0 ELSE 224]
SizeRoms ==
    {<<>>, <<7>>, <<0, 0, 9, 0, 255>>, RomOfSize(MemorySize - RomStart),
     RomOfSize(MemorySize - RomStart + 1)}

\* Vy = b, Vx any byte (also when x = y), then the two-register instruction op
RomArith(op, x, y, b) ==
    RomOf(<<ILit("LoadRegister", y, b), I2("LoadRandomWithMask", x, 255), I2(op, x, y)>>)

\* The register pairs and second operands of RomArith
ArithPairs == {<<0, 1>>, <<1, 15>>, <<15, 1>>, <<15, 15>>, <<2, 2>>}
ArithBytes == {0, 1, 55, 128, 200, 255}

\* Vx any byte, then the shift op
RomShift(op, x) == RomOf(<<I2("LoadRandomWithMask", x, 255), I1(op, x)>>)

\* V0..VF = base, base + 1, ..., base + 15
LoadAll(base) == [k \in 1..16 |-> ILit("LoadRegister", k - 1, base + k - 1)]

\* Sixteen cells at 0x300 filled from one set of register values, the first n + 1
\* overwritten from a second set, read back into a third, then a store and a read
RomStore(n) ==
    RomOf(LoadAll(16) \o <<I1("LoadMemoryRegister", 768), I1("StoreRegistersInMemory", 15)>>
            \o LoadAll(64) \o <<I1("StoreRegistersInMemory", n)>>
            \o LoadAll(128) \o <<I1("ReadRegistersFromMemory", n),
                                 I1("StoreRegistersInMemory", n),
                                 I1("ReadRegistersFromMemory", n)>>)

\* Vx any byte, I = i, I += Vx, then I = the address of the digit Vx
RomIndex(x, i) ==
    RomOf(<<I2("LoadRandomWithMask", x, 255), I1("LoadMemoryRegister", i),
            I1("AddToMemoryRegister", x), I1("LoadDigitAddress", x)>>)

\* Memory accesses at the top of memory: a fetch at 0xFFF, and a draw of n rows, a
\* BCD store and a store and a read of V0..Vx with I = i
EdgeRoms ==
    {RomOf(<<I1("Jump", MemorySize - 1)>>)} \cup
    {RomOf(<<I1("LoadMemoryRegister", i), ins>>) :
        i \in {MemorySize - 3, MemorySize - 2, MemorySize - 1},
        ins \in {I3("Draw", 0, 0, 0), I3("Draw", 0, 0, 1), I3("Draw", 0, 0, 3),
                 I1("StoreBcdInMemory", 0),
                 I1("StoreRegistersInMemory", 0), I1("StoreRegistersInMemory", 2),
                 I1("ReadRegistersFromMemory", 0), I1("ReadRegistersFromMemory", 2)}}

\* At one random place around the right and bottom edges: one draw of the n rows
\* from row i of SpriteRows, then three draws of the k rows from row j
RomDrawAgain(i, n, j, k) ==
    RomOf(<<I2("LoadRandomWithMask", 0, 7), I2("AddNoCarry", 0, 58),
            I2("LoadRandomWithMask", 1, 3), I2("AddNoCarry", 1, 30),
            I1("LoadMemoryRegister", RomStart + 20 + i), I3("Draw", 0, 1, n),
            I1("LoadMemoryRegister", RomStart + 20 + j),
            I3("Draw", 0, 1, k), I3("Draw", 0, 1, k), I3("Draw", 0, 1, k)>>) \o SpriteRows

\* The sprites of RomDrawAgain: nothing, or three rows, under no rows, one row
\* with only its rightmost bit set, two rows, and all fifteen
DrawAgainRoms ==
    {RomDrawAgain(s[1], s[2], t[1], t[2]) :
        s \in {<<0, 0>>, <<1, 3>>}, t \in {<<0, 0>>, <<5, 1>>, <<5, 2>>, <<0, 15>>}}

ArithRoms ==
    {RomStore(n) : n \in 0..15} \cup EdgeRoms \cup DrawAgainRoms \cup
    {RomIndex(x, i) : x \in {0, 15}, i \in {0, 3841, MemorySize - 1}} \cup
    {RomBcd(x, i) : x \in {0, 3, 15}, i \in {768, RomStart + 2, MemorySize - 3}}
        \cup SizeRoms
        \cup {RomArith(op, p[1], p[2], b) :
                 op \in {"AddWithCarry", "Sub", "SubN"}, p \in ArithPairs, b \in ArithBytes}
        \cup {RomShift(op, x) : op \in {"ShiftLeft", "ShiftRight"}, x \in {0, 7, 15}}

ArithInit == InterpInit(ArithRoms)

ArithSpec == ArithInit /\ [][Next]_vars

\* The memory cells that may differ between two images
CellsOf(mem1, mem2) == DOMAIN mem1 \cup DOMAIN mem2

\* C23: a step that executes StoreBcdInMemory(x) writes the hundreds, tens and
\* units digits of Vx (each in 0..9, 100*h + 10*t + u = Vx) to memory[I],
\* memory[I+1], memory[I+2], and changes no register, no other memory cell and
\* not I.
C23_StoreBcdDigits ==
    [][ (mode = "interp" /\ NextInstr(Machine).op = "StoreBcdInMemory" /\ panic' = "None") =>
            LET vx == v_registers[NextInstr(Machine).x]
                i == memory_register
            IN  /\ \E h \in 0..9 : \E t \in 0..9 : \E u \in 0..9 :
                      /\ 100 * h + 10 * t + u = vx
                      /\ MemRead(memory', i) = h
                      /\ MemRead(memory', i + 1) = t
                      /\ MemRead(memory', i + 2) = u
                /\ \A a \in CellsOf(memory, memory') \ {i, i + 1, i + 2} :
                      MemRead(memory', a) = MemRead(memory, a)
                /\ DOMAIN memory' \subseteq 0..(MemorySize - 1)
                /\ v_registers' = v_registers
                /\ memory_register' = memory_register
                /\ UNCHANGED <<stack, stack_pointer, display, waiting_for_key_press>>
      ]_vars

\* V3 = 123 and I = 0x300: memory[0x300..0x302] = 1, 2, 3
C23_Witness ==
    /\ mode = "interp" /\ last.branch = "exec" /\ last.ins.op = "StoreBcdInMemory"
    /\ v_registers[3] = 123 /\ memory_register = 768
    /\ MemRead(memory, 768) = 1 /\ MemRead(memory, 769) = 2 /\ MemRead(memory, 770) = 3

\* The state Chip8Interpreter::new leaves, before any step
FreshInterpreter == mode = "interp" /\ last.branch = "none"

\* The registers, timers, display and key wait of a new interpreter
FreshRegisters ==
    /\ program_counter = RomStart /\ stack_pointer = 0
    /\ \A k \in 0..15 : v_registers[k] = 0
    /\ memory_register = 0 /\ delay_timer = 0 /\ sound_timer = 0
    /\ display = {} /\ waiting_for_key_press = <<>>

\* C24 (amended): a new interpreter on a ROM of at most 3584 bytes starts with
\* PC = 0x200, SP = 0, V0..VF = I = DT = ST = 0, a black display and no key wait;
\* memory[0x200 + k] = rom[k] for every k below the ROM length and memory at and
\* above 0x200 beyond the ROM is 0. On a longer ROM the constructor aborts.
C24_FreshInterpreter ==
    FreshInterpreter =>
        IF RomStart + Len(rom) <= MemorySize
        THEN /\ panic = "None"
             /\ FreshRegisters
             /\ DOMAIN memory \subseteq 0..(MemorySize - 1)
             /\ \A k \in 1..Len(rom) : MemRead(memory, RomStart + k - 1) = rom[k]
             /\ \A a \in (RomStart + Len(rom))..(MemorySize - 1) : MemRead(memory, a) = 0
        ELSE panic = "IndexOutOfBounds"

\* A new interpreter on the largest ROM that fits: the last cell holds its last byte
C24_Witness ==
    /\ FreshInterpreter /\ panic = "None"
    /\ Len(rom) = MemorySize - RomStart
    /\ MemRead(memory, MemorySize - 1) = rom[Len(rom)] /\ rom[Len(rom)] = 224

\* C24 (as stated; refuted): the same for every ROM, whatever its length
C24_FreshInterpreterAnyRom ==
    FreshInterpreter =>
        /\ panic = "None"
        /\ FreshRegisters
        /\ \A k \in 1..Len(rom) :
              /\ RomStart + k - 1 < MemorySize
              /\ MemRead(memory, RomStart + k - 1) = rom[k]
        /\ \A a \in (RomStart + Len(rom))..(MemorySize - 1) : MemRead(memory, a) = 0

\* What a step that executes one register instruction leaves alone
ArithFrame ==
    /\ panic' = "None"
    /\ memory' = memory /\ memory_register' = memory_register
    /\ UNCHANGED <<stack, stack_pointer, display, waiting_for_key_press>>

\* The registers after Vx := value and then VF := flag
FlagLast(x, value, flag) ==
    [k \in 0..15 |-> IF k = 15 THEN flag ELSE IF k = x THEN value ELSE v_registers[k]]

\* The registers after VF := flag and then Vx := value
FlagFirst(x, value, flag) ==
    [k \in 0..15 |-> IF k = x THEN value ELSE IF k = 15 THEN flag ELSE v_registers[k]]

\* C25: a step that executes AddWithCarry(x, y) reads Vx and Vy, writes
\* (Vx + Vy) mod 256 to Vx and then the carry (1 iff Vx + Vy > 255) to VF: with
\* y = 0xF the sum uses the old VF, with x = 0xF the final VF is the carry.
C25_AddWithCarry ==
    [][ (mode = "interp" /\ NextInstr(Machine).op = "AddWithCarry") =>
            LET x == NextInstr(Machine).x
                y == NextInstr(Machine).y
                sum == v_registers[x] + v_registers[y]
            IN  /\ v_registers' = FlagLast(x, sum % 256, IF sum > 255 THEN 1 ELSE 0)
                /\ ArithFrame
      ]_vars

\* AddWithCarry(0xF, 1) with V1 = 200 and a sum above 255: VF holds the carry
C25_Witness ==
    /\ mode = "interp" /\ last.branch = "exec"
    /\ last.ins.op = "AddWithCarry" /\ last.ins.x = 15 /\ last.ins.y = 1
    /\ v_registers[1] = 200 /\ v_registers[15] = 1

C27_ShiftFlags ==
    [][ (mode = "interp" /\ NextInstr(Machine).op \in {"ShiftLeft", "ShiftRight"}) =>
            LET x == NextInstr(Machine).x
                vx == v_registers[x]
                left == NextInstr(Machine).op = "ShiftLeft"
                flag == IF left THEN (IF vx >= 128 THEN 128 ELSE 0) ELSE vx % 2
                shifted == IF x = 15 THEN flag ELSE vx
            IN  /\ v_registers' = FlagFirst(x, IF left THEN (shifted * 2) % 256 ELSE shifted \div 2,
                                            flag)
                /\ flag \in (IF left THEN {0, 128} ELSE {0, 1})
                /\ ArithFrame
      ]_vars

\* ShiftLeft(7) of a byte with its top bit set: VF = 128
C27_Witness ==
    /\ mode = "interp" /\ last.branch = "exec"
    /\ last.ins.op = "ShiftLeft" /\ last.ins.x = 7
    /\ v_registers[15] = 128 /\ v_registers[7] = 2

\* C28: a step that executes StoreRegistersInMemory(n) copies V[i] to memory[I+i]
\* and one that executes ReadRegistersFromMemory(n) copies memory[I+i] to V[i], for
\* exactly i = 0..n; I is not modified, registers above n and memory outside
\* I..I+n are unchanged, and a read right after a store with the same n changes
\* no register.
C28_StoreReadRegisters ==
    [][ (mode = "interp" /\ panic' = "None"
           /\ NextInstr(Machine).op \in {"StoreRegistersInMemory", "ReadRegistersFromMemory"}) =>
            LET n == NextInstr(Machine).x
                i == memory_register
                store == NextInstr(Machine).op = "StoreRegistersInMemory"
            IN  /\ memory_register' = i
                /\ UNCHANGED <<stack, stack_pointer, display, waiting_for_key_press>>
                /\ store =>
                      /\ v_registers' = v_registers
                      /\ \A k \in 0..n : MemRead(memory', i + k) = v_registers[k]
                      /\ \A a \in CellsOf(memory, memory') \ (i..(i + n)) :
                            MemRead(memory', a) = MemRead(memory, a)
                /\ ~store =>
                      /\ memory' = memory
                      /\ \A k \in 0..15 :
                            v_registers'[k] = IF k <= n THEN MemRead(memory, i + k)
                                              ELSE v_registers[k]
                      /\ (last.branch = "exec" /\ last.ins.op = "StoreRegistersInMemory"
                            /\ last.ins.x = n) => v_registers' = v_registers
      ]_vars

\* After the first ReadRegistersFromMemory(3) of RomStore(3): V3 comes from the
\* second store, V4 keeps its own value and memory[I+4] that of the first store
C28_Witness ==
    /\ mode = "interp" /\ last.branch = "exec"
    /\ last.ins.op = "ReadRegistersFromMemory" /\ last.ins.x = 3
    /\ v_registers[3] = 67 /\ v_registers[4] = 132
    /\ MemRead(memory, memory_register + 3) = 67 /\ MemRead(memory, memory_register + 4) = 20

\* C29: the stack is bounded by aborting, never by wrapping: a step that executes
\* Return with SP = 0, or Call with SP = 16, aborts and leaves SP and the stack
\* array as they were; SP stays in 0..16 and the stack has its sixteen slots.
C29_StackBoundsAbort ==
    /\ [](mode = "interp" =>
              /\ stack_pointer \in 0..StackSize
              /\ DOMAIN stack = 0..(StackSize - 1))
    /\ [][ (mode = "interp"
              /\ \/ NextInstr(Machine).op = "Return" /\ stack_pointer = 0
                 \/ NextInstr(Machine).op = "Call" /\ stack_pointer = StackSize) =>
                /\ panic' # "None"
                /\ stack_pointer' = stack_pointer
                /\ stack' = stack
          ]_vars

\* The seventeenth nested Call has aborted with SP still 16
C29_Witness ==
    /\ mode = "interp" /\ last.branch = "panic" /\ last.ins.op = "Call"
    /\ panic = "IndexOutOfBounds" /\ stack_pointer = StackSize

\* C30 (as stated; refuted): when a step fetches a word that decode rejects, the
\* step aborts with the message that names the bytecode and the address the word
\* was fetched from, whatever that address, and executes nothing for the word.
C30_RejectedWordReport ==
    [][ (mode = "interp" /\ waiting_for_key_press = <<>>
           /\ fetch(Machine).m.panic = "None" /\ ~decode(fetch(Machine).bytes).ok) =>
            /\ panic' = "UnrecognisedBytecode"
            /\ last'.branch = "panic"
            /\ last'.report = [kind |-> "UnrecognisedBytecode",
                               bytecode |-> from_be_bytes(fetch(Machine).bytes),
                               address |-> program_counter]
            /\ UNCHANGED <<memory, v_registers, memory_register, stack, stack_pointer,
                           display, delay_timer, sound_timer, waiting_for_key_press>>
      ]_vars

\* The operand of the k-th statement that is used as an address
AddressOperand(k) ==
    LET pi == statements[k].pi IN IF pi.op = "JmpPlus" THEN pi.b ELSE pi.a

\* The k-th statement is an instruction with an address operand that pass 2
\* resolves to a number
ResolvesAddress(k) ==
    /\ statements[k].kind = "PseudoInstruction"
    /\ statements[k].pi.op \in {"Jmp", "Call", "LdIndex", "JmpPlus"}
    /\ StmtOffence(k).kind = "None"
    /\ statements[k].pi.op = "JmpPlus" => BaseRegister(statements[k].pi.a) = 0

\* The number the address operand of the k-th statement resolves to
AddressValue(k) ==
    LET arg == AddressOperand(k) IN
    IF arg.tag = "Alias" THEN alias_map[arg.name].val ELSE arg.val

\* The first nibble of the word of a mnemonic with an address
AddressNibble(op) == [Jmp |-> 1, Call |-> 2, LdIndex |-> 10, JmpPlus |-> 11][op]

\* C31: codegen itself does not bound an address: when pass 2 arrives at jmp, call,
\* ld I or jmpp whose address (alias, label or literal) resolves to v > 0xFFF,
\* codegen fails there with EncodingError(AddressTooBig(v)) and returns no ROM; an
\* address v <= 0xFFF is the low 12 bits of the emitted word; and codegen fails
\* with AddressTooBig in no other case.
C31_AddressWidth ==
    /\ \A k \in DOMAIN statements :
          (Pass2Reached(k) /\ ResolvesAddress(k)) =>
              IF AddressValue(k) > 4095
              THEN FailedAtWith(k, CgEncodingError(EncErr("AddressTooBig", AddressValue(k))))
              ELSE cgStatus = "ok" =>
                      BlobWord(RomStart + BytesBefore(k))
                          = <<AddressNibble(statements[k].pi.op) * 16 + AddressValue(k) \div 256,
                              AddressValue(k) % 256>>
    /\ (cgStatus = "err" /\ cgError.kind = "EncodingError"
            /\ cgError.enc = "AddressTooBig") =>
          /\ cgError.span \in DOMAIN statements
          /\ ResolvesAddress(cgError.span)
          /\ AddressValue(cgError.span) = cgError.a
          /\ cgError.a > 4095
          /\ blob = <<>>

\* call l with the label l at 0x1000, behind 3584 bytes of raw data
C31_Witness ==
    /\ cgStatus = "err"
    /\ Len(statements) = 3 /\ statements[2] = Label("l")
    /\ statements[3] = PseudoInstruction(PI("Call", Alias("l"), NoArg, NoArg))
    /\ alias_map["l"] = RawData(4096)
    /\ cgError = [CgEncodingError(EncErr("AddressTooBig", 4096)) EXCEPT !.span = 3]
    /\ blob = <<>>

\* The k-th statement calls for an error of pass 2 under the alias map: an
\* offending alias, or an address the encoder rejects
Pass2Error(k) ==
    \/ StmtOffence(k).kind # "None"
    \/ ResolvesAddress(k) /\ AddressValue(k) > 4095

\* The k-th statement is an instruction that names, in an operand it uses, a name
\* that no statement defines
NamesUndefined(k) ==
    /\ statements[k].kind = "PseudoInstruction"
    /\ LET pi == statements[k].pi
           roles == OperandRoles(pi.op)
       IN  \E i \in 1..3 :
              LET arg == <<pi.a, pi.b, pi.c>>[i] IN
              /\ roles[i] # "none" /\ arg.tag = "Alias"
              /\ \A j \in DOMAIN statements : DefinedName(statements[j]) # arg.name

\* The k-th statement is erroneous: a second definition of a name, a use of a name
\* that is defined nowhere, or a statement that calls for an error of pass 2
Erroneous(k) ==
    \/ k \in SecondDefinitions
    \/ NamesUndefined(k)
    \/ Pass1Completed /\ Pass2Error(k)

\* C32 as stated: the error codegen returns belongs to the earliest erroneous
\* statement in statement order.
C32_EarliestStatementReported ==
    cgStatus = "err" => \A k \in 1..(cgError.span - 1) : ~Erroneous(k)

\* C32: when codegen returns an error it returns one error, spanned with a
\* statement, and no ROM, and it is the first error in the order codegen works in:
\* a second definition of a name anywhere in the list (the earliest such) comes
\* before every error of pass 2; without one, the error belongs to the earliest
\* statement that calls for an error of pass 2, and the instructions before it,
\* and none after it, have been encoded.
C32_FirstErrorReturned ==
    cgStatus = "err" =>
        /\ blob = <<>>
        /\ cgError.kind # "None"
        /\ cgError.span \in DOMAIN statements
        /\ IF SecondDefinitions # {}
           THEN /\ cgError.kind \in {"AliasAlreadyDefined", "LabelAlreadyDefined"}
                /\ cgError.span \in SecondDefinitions
                /\ \A j \in SecondDefinitions : cgError.span <= j
                /\ lowered = <<>>
           ELSE /\ Pass2Error(cgError.span)
                /\ \A k \in 1..(cgError.span - 1) : ~Pass2Error(k)
                /\ Len(lowered) = InstrsBefore(cgError.span)

\* jmp l with l defined nowhere, then a defined twice: codegen returns the second
\* definition at statement 3, not the undefined name at statement 1
C32_Witness ==
    /\ cgStatus = "err"
    /\ Len(statements) = 3
    /\ statements[1] = PseudoInstruction(PI("Jmp", Alias("l"), NoArg, NoArg))
    /\ statements[2].kind = "AliasDefinition" /\ statements[3].kind = "AliasDefinition"
    /\ cgError.kind = "AliasAlreadyDefined" /\ cgError.span = 3
    /\ blob = <<>>

\* The statements that are include directives
Includes == {k \in DOMAIN statements : statements[k].kind = "Include"}

\* C33: an include directive is accepted and ignored with a warning: once pass 1
\* has run over it, it is reported at WARNING severity and not at ERROR severity,
\* the error flag stays clear unless codegen aborts, and it neither adds bytes to
\* the ROM nor moves the offset of the labels behind it.
C33_IncludeWarns ==
    (Pass1Completed /\ Includes # {}) =>
        /\ \A k \in Includes :
              /\ \E n \in DOMAIN reports : reports[n] = <<k, "WARNING">>
              /\ \A n \in DOMAIN reports : reports[n] # <<k, "ERROR">>
        /\ cgStatus # "panic" => ~had_error
        /\ cgStatus = "ok" => Len(blob) = BytesBefore(Len(statements) + 1)

\* C34: in every reachable interpreter state I is at most 0xFFF: a step that
\* executes LoadMemoryRegister(a) leaves I = a, a 12-bit address,
\* AddToMemoryRegister(x) leaves I = (I + Vx) mod 4096, LoadDigitAddress(x) leaves
\* I = 80 + 5 * (Vx mod 16), and every other step leaves I as it was.
C34_MemoryRegisterTwelveBits ==
    /\ [](mode = "interp" => memory_register \in 0..4095)
    /\ [][ mode = "interp" =>
             LET ins == NextInstr(Machine) IN
             CASE ins.op = "LoadMemoryRegister" ->
                     memory_register' = ins.x /\ ins.x \in 0..4095
               [] ins.op = "AddToMemoryRegister" ->
                     memory_register' = (memory_register + v_registers[ins.x]) % 4096
               [] ins.op = "LoadDigitAddress" ->
                     memory_register' = FONT_ADDRESS_START + 5 * (v_registers[ins.x] % 16)
               [] OTHER -> memory_register' = memory_register
        ]_vars

\* I = 0xFFF and V0 = 2: AddToMemoryRegister(0) wraps I to 1
C34_Witness ==
    /\ mode = "interp" /\ last.branch = "exec"
    /\ last.ins.op = "AddToMemoryRegister" /\ last.ins.x = 0
    /\ Len(rom) = 8 /\ rom[3] = 175 /\ rom[4] = 255
    /\ v_registers[0] = 2 /\ memory_register = 1

\* The memory cells a step that fetches at pc and executes ins with I = i indexes
StepIndices(pc, ins, i) ==
    {pc, pc + 1} \cup
    CASE ins.op = "Draw" -> i..(i + ins.n - 1)
      [] ins.op = "StoreBcdInMemory" -> i..(i + 2)
      [] ins.op \in {"StoreRegistersInMemory", "ReadRegistersFromMemory"} -> i..(i + ins.x)
      [] OTHER -> {}

\* C35: every memory index a step uses lies in 0..4095 (the fetch reads PC and
\* PC + 1, Draw reads I..I+n-1, StoreBcdInMemory writes I..I+2, Store and
\* ReadRegisters access I..I+x), and no step aborts on an out-of-range index.
C35_MemoryIndicesInRange ==
    [][ (mode = "interp" /\ panic = "None" /\ waiting_for_key_press = <<>>) =>
            /\ panic' # "IndexOutOfBounds"
            /\ StepIndices(program_counter, decode(fetch(Machine).bytes).instr, memory_register)
                   \subseteq 0..(MemorySize - 1)
      ]_vars

\* Two Draw(x, y, n) in succession, neither x nor y being VF: the step before was
\* the first, the step being taken is the second
SecondDraw ==
    /\ mode = "interp"
    /\ last.branch = "exec" /\ last.ins.op = "Draw"
    /\ last.ins.x # 15 /\ last.ins.y # 15
    /\ last'.branch = "exec" /\ last'.ins = last.ins

\* C36 as stated: the second of two Draw(x, y, n) in succession restores the
\* display of before the first and leaves VF = 1 iff the sprite has a set bit
\* that lands on screen.
C36_DrawTwiceFlagIffSpriteOnScreen ==
    [][ SecondDraw =>
          LET cells == SpriteCells(last.ins.x, last.ins.y, last.ins.n) IN
          /\ display' = last.shown
          /\ v_registers'[15] = IF cells # {} THEN 1 ELSE 0
      ]_vars

\* C36: the second of two Draw(x, y, n) in succession, with x and y different from
\* 0xF, restores the display to what it was before the first, and leaves VF = 1
\* iff the sprite has a set bit that lands on a pixel of the screen that was Black
\* before the first draw (on a display that was Black under the sprite: iff the
\* sprite has a set bit that lands on screen).
C36_DrawTwiceRestores ==
    [][ SecondDraw =>
          LET cells == SpriteCells(last.ins.x, last.ins.y, last.ins.n) IN
          /\ display' = last.shown
          /\ v_registers'[15] = IF cells \ last.shown # {} THEN 1 ELSE 0
          /\ cells \cap last.shown = {} =>
                v_registers'[15] = IF cells # {} THEN 1 ELSE 0
      ]_vars

\* The third draw of the fifteen rows at (63, 30): the second erased them and set
\* VF, the third shows them again, as after the first, and leaves VF = 0
C36_Witness ==
    /\ mode = "interp" /\ last.branch = "exec" /\ last.ins = I3("Draw", 0, 1, 15)
    /\ program_counter = RomStart + 20
    /\ v_registers[0] = 63 /\ v_registers[1] = 30
    /\ last.shown = {} /\ display = {<<30, 63>>, <<31, 63>>}
    /\ v_registers[15] = 0

\* The number of operands of a parsed instruction
OperandCount(pi) == Cardinality({i \in 1..3 : <<pi.a, pi.b, pi.c>>[i] # NoArg})

\* C37: every operand of a parsed instruction comes from its own token after the
\* mnemonic: a call of parse_statement that yields an instruction has consumed the
\* mnemonic's token and at least one more token for each operand, so that an
\* instruction cut short by the end of the token list yields a parse error and no
\* statement.
C37_OperandsFromOwnTokens ==
    [][ (mode = "parse" /\ Len(statements') = Len(statements) + 1
            /\ statements'[Len(statements')].kind = "PseudoInstruction") =>
            /\ reports' = reports
            /\ current' - current >= 1 + OperandCount(statements'[Len(statements')].pi)
      ]_vars

\* parse_program calls parse_statement for as long as the cursor is not at the end
ParseFairSpec == ParseInit /\ [][ParseStatement]_vars /\ WF_vars(ParseStatement)

\* C38: Parser::parse terminates: every call of parse_statement, the error and
\* synchronize path and the one-token rewind of a register-or-byte operand
\* included, leaves the cursor strictly greater than it found it, the cursor stays
\* within 0..token count, and the cursor reaches the token count.
C38_ParseTerminates ==
    /\ [](mode = "parse" => current \in 0..Len(tokens))
    /\ [][ mode = "parse" => (current' > current /\ current' <= Len(tokens)) ]_vars
    /\ <>(mode = "parse" /\ current = Len(tokens))

\* add v1 300 cls: the rewind of the register-or-byte operand, the error at 300
\* and synchronize leave the cursor at the end of the list
C38_Witness ==
    /\ mode = "parse"
    /\ Len(tokens) = 4
    /\ tokens[1] = Token("InstructionName", "Add", 0, <<>>)
    /\ tokens[2].t = "GeneralRegisterName"
    /\ tokens[3] = Token("NumericLiteral", "", 300, <<>>)
    /\ current = 4
    /\ statements = <<>> /\ reports = <<<<3, "ERROR">>>>

\* The largest literal an operand used in a role may be
RoleLimit(role) ==
    CASE role = "addr" -> 4095
      [] role \in {"byte", "regbyte"} -> 255
      [] OTHER -> 15

\* Every operand of the k-th statement that is written as a literal or a register
\* name fits the field it is encoded in
ConcreteOperandsFit(k) ==
    statements[k].kind = "PseudoInstruction" =>
        LET pi == statements[k].pi
            roles == OperandRoles(pi.op)
        IN  \A i \in 1..3 :
               LET arg == <<pi.a, pi.b, pi.c>>[i] IN
               /\ arg.tag = "Number" => (roles[i] # "none" /\ arg.val <= RoleLimit(roles[i]))
               /\ arg.tag = "Register" => (roles[i] \in {"reg", "regbyte"} /\ arg.val <= 15)

\* C39: the statements parsed from a source hold no literal wider than its field
\* (a nibble at most 0xF, a byte at most 0xFF, an address at most 0xFFF; wider ones
\* are parse errors), and when codegen fails on them with an EncodingError the
\* operand the encoder rejected is an alias or a label, never a literal.
C39_LiteralsNeverEncodingErrors ==
    mode = "main" =>
        /\ \A k \in DOMAIN statements : ConcreteOperandsFit(k)
        /\ (cgStatus = "err" /\ cgError.kind = "EncodingError") =>
              /\ cgError.span \in DOMAIN statements
              /\ ResolvesAddress(cgError.span)
              /\ AddressOperand(cgError.span).tag = "Alias"
              /\ alias_map[AddressOperand(cgError.span).name] = RawData(cgError.a)
              /\ cgError.a > 4095

\* jmp #fff and jmp #1000: the first is parsed and encoded as 1F FF, the second is
\* a parse error and leaves no statement
C39_Witness ==
    /\ mode = "main" /\ stage = "done" /\ cgStatus = "ok"
    /\ statements = <<PseudoInstruction(PI("Jmp", ConcreteNum(4095), NoArg, NoArg))>>
    /\ Len(tokens) = 4 /\ tokens[4].val = 4096
    /\ blob = <<31, 255>>
    /\ had_error

\* C40: the scanner never produces InstructionName(Jmpp) (the word jmpp is not in
\* the keyword table and is scanned as an Identifier), so the statements parsed
\* from a source never hold a JmpPlus and codegen on them never aborts on the V0
\* check of jmpp.
C40_JmppNotScanned ==
    mode = "main" =>
        /\ \A n \in DOMAIN tokens :
              ~(tokens[n].t = "InstructionName" /\ tokens[n].name = "Jmpp")
        /\ \A k \in DOMAIN statements :
              statements[k].kind = "PseudoInstruction" => statements[k].pi.op # "JmpPlus"
        /\ cgStatus # "panic"
        /\ \A n \in DOMAIN lowered : lowered[n].ins.op # "JumpPlusV0"

\* jmpp v0, a: the word jmpp is an Identifier, a parse error, and no statement
C40_Witness ==
    /\ mode = "main" /\ stage = "done" /\ cgStatus = "ok"
    /\ Len(tokens) = 3
    /\ tokens[1].t = "Identifier" /\ tokens[1].name = "jmpp"
    /\ tokens[2].t = "GeneralRegisterName" /\ tokens[2].val = 0
    /\ statements = <<>>
    /\ had_error

====
